---- MODULE Spec2Model ----
(***************************************************************************)
(* Archon document ingestion: DocumentStorageOperations                    *)
(* .process_and_store_documents and _create_source_records                 *)
(* (python/src/server/services/crawling/document_storage_operations.py).   *)
(*                                                                         *)
(* One run of process_and_store_documents is a state machine               *)
(*   Preparing -> RegisteringSources -> VerifyingSources ->                *)
(*   RegisteringPages -> Streaming -> {Done | Cancelled | Failed}.         *)
(* The collaborators the run calls (the cancellation check, the            *)
(* summarizer, update_source_info, the sources table, the page store, the  *)
(* settings service and add_documents_to_supabase) are external: each call *)
(* is recorded in `log` and its outcome is a nondeterministic choice.      *)
(*                                                                         *)
(* A run given no cancellation_check behaves as one whose check never      *)
(* raises.                                                                 *)
(*                                                                         *)
(* Text is a sequence of tokens; the token " " is whitespace, every other  *)
(* token is a run of non-blank characters.                                 *)
(*                                                                         *)
(* Two functions of BaseStorageService                                     *)
(* (python/src/server/services/storage/base_storage_service.py) have a     *)
(* specification of their own, each call a state machine over its loops:   *)
(*   SpecChunk  smart_chunk_text, on texts of single characters;           *)
(*   SpecSplit  split_text_for_incremental_chunking, on texts of runs of   *)
(*              characters (letters, newlines, spaces, page marker lines). *)
(* In Spec these two are idle; in SpecChunk and SpecSplit the run is idle. *)
(***************************************************************************)
EXTENDS Integers, Sequences, FiniteSets, TLC

\* ------------------------------------------------------------------ bounds
\* Longest crawl_results list explored.
MaxDocs == 2
\* Most pieces of TextPieces joined into one text given to smart_chunk_text.
MaxPieces == 3
\* Longest text given to smart_chunk_text, in windows of chunk_size.
MaxWindows == 40
\* Most page markers in a text given to split_text_for_incremental_chunking.
MaxPages == 4
\* Most runs of a text without page markers given to it.
MaxRuns == 3
\* calls of get_db_client and reset_db_client followed
MaxCalls == 3
\* threads that call execute() on query builders of one pool
MaxThreads == 2
\* largest max_conn of the connection pool
MaxConn == 2
\* most content samples handed to _create_source_records in one call
MaxSamples == 4

\* ------------------------------------------------------- program constants
\* max(25, raw_flush_size)
MinFlushChunks == 25
\* rag_settings.get("DOCUMENT_STORAGE_FLUSH_CHUNKS", "250") and the except branch
DefaultFlushChunks == 250
\* doc_chunk_index % 10 == 0
ChunkCheckEvery == 10
\* progress_callback("cancelled", 99, ...)
CancelledPercent == 99
\* markdown_content[:5000]
SummarySampleChars == 5000
\* source_contents[:3]
SummarySamples == 3
\* `len(combined_content) + len(chunk) < 15000`
CombinedChars == 15000
\* `doc_index % 5 == 0`: the documents between two `asyncio.sleep(0)`
YieldEvery == 5
\* `len(current) < 200`: chunks shorter than this are joined to the next one
MinChunkChars == 200
\* smart_chunk_text(text, chunk_size=5000)
DefaultChunkSize == 5000
\* max_chars_per_batch: int = 200_000
DefaultMaxChars == 200000
\* pdf_pages_per_batch: int = 75
DefaultPdfPages == 75
\* max(10_000, int(max_chars_per_batch))
MinMaxChars == 10000
\* max(1, int(pdf_pages_per_batch))
MinPdfPages == 1

\* -------------------------------------------------------------------- text
WS == " "

RECURSIVE LStrip(_)
LStrip(s) == IF s # <<>> /\ Head(s) = WS THEN LStrip(Tail(s)) ELSE s

RECURSIVE RStrip(_)
RStrip(s) ==
    IF s # <<>> /\ s[Len(s)] = WS THEN RStrip(SubSeq(s, 1, Len(s) - 1)) ELSE s

\* str.strip()
Strip(s) == RStrip(LStrip(s))

\* len(s.split()): the number of maximal runs of non-blank tokens
WordCount(s) ==
    Cardinality({i \in 1..Len(s) : s[i] # WS /\ (i = 1 \/ s[i - 1] = WS)})

\* a word of 4,999 letters, held as one token
LongWord == "wwww...w"

\* the number of characters a token stands for
CharLen(c) == IF c = LongWord THEN 4999 ELSE 1

\* the number of characters of the first k tokens of s
RECURSIVE Chars(_, _)
Chars(s, k) == IF k = 0 THEN 0 ELSE Chars(s, k - 1) + CharLen(s[k])

\* s[:n]: the tokens that fit whole in the first n characters, and the first
\* letters of a long word that n cuts
Take(s, n) ==
    LET whole == CHOOSE k \in 0..Len(s) :
                     /\ Chars(s, k) <= n
                     /\ (k = Len(s) \/ Chars(s, k + 1) > n)
        letters == n - Chars(s, whole)
    IN  SubSeq(s, 1, whole)
            \o (IF whole < Len(s) THEN [i \in 1..letters |-> "w"] ELSE <<>>)

\* str.endswith("llms-full.txt")
EndsWithLlmsFull(s) == s # <<>> /\ s[Len(s)] = "llms-full.txt"

\* dict.get(key): a value that may be missing (None)
None == [present |-> FALSE, val |-> <<>>]
Some(v) == [present |-> TRUE, val |-> v]

\* (doc.get(key) or '')
OrEmpty(o) == IF o.present THEN o.val ELSE <<>>

\* ------------------------------------------------------------------ inputs
\* A crawled document: its raw url and markdown, and what the splitter and
\* the chunker make of its trimmed markdown: `batches[b]` is the number of
\* chunks smart_chunk_text returns for the b-th text batch of
\* split_text_for_incremental_chunking, and `sections[s]` the number of
\* chunks of the s-th section parse_llms_full_sections finds in it.
Doc(u, m, b, s) == [url |-> u, markdown |-> m, batches |-> b, sections |-> s]

\* The trimmed markdown of a document, with what the splitter, the chunker
\* and the section parser return for it.
Content(doc) ==
    [text |-> Strip(OrEmpty(doc.markdown)), batches |-> doc.batches,
     sections |-> doc.sections]

DocPool ==
    { Doc(Some(<<WS, "a", WS>>), Some(<<"w", WS, "w", WS>>), <<2>>, <<1, 1>>),
      Doc(Some(<<"b">>), Some(<<WS, LongWord, WS, "w", WS, "w">>), <<30, 30>>, <<130, 121>>),
      Doc(Some(<<"c/", "llms-full.txt">>), Some(<<"w", WS, "w">>), <<5, 6>>, <<2, 1>>),
      Doc(None, Some(<<"w">>), <<1>>, <<1>>),
      Doc(Some(<<"a">>), None, <<>>, <<>>),
      Doc(Some(<<WS>>), Some(<<WS, WS>>), <<>>, <<>>) }

DocSeqs == UNION {[1..n -> DocPool] : n \in 0..MaxDocs}

CrawlTypes == {"normal", "llms-txt"}

\* original_source_id
SourceId == "src"

\* ------------------------------------------------------------------- state
VARIABLES
    crawl_results,            \* argument: list of crawled documents
    crawl_type,               \* argument
    progress_callback,        \* argument: TRUE when a callback is given
    pc,                       \* position of the run in the state machine
    doc_index,                \* 1-based index of the loop in progress
    processed_docs,
    prepared_documents,
    url_to_full_document,     \* dict, as a list of <<key, value>> in insertion order
    source_word_counts,       \* dict source_id -> words, here of the single source_id
    source_summary_contents,
    source_summary_metadatas,
    sources_todo,             \* unique_source_ids not yet upserted
    verify_todo,              \* unique_source_ids not yet read back
    url_to_page_id,
    rag_setting,              \* DOCUMENT_STORAGE_FLUSH_CHUNKS as the run found it, once it asked
    flush_chunk_size,
    pending_urls,
    pending_chunk_numbers,
    pending_contents,
    pending_metadatas,
    delete_done,
    deletion_urls,
    chunk_count,
    chunks_stored,
    doc_chunk_index,
    batch_index,              \* position of the text_batches loop, 0 before the document starts
    chunk_pos,                \* position of the chunks loop inside the batch
    result,                   \* the returned dict, when the run returned
    error,                    \* the exception raised, when the run raised
    log,                      \* every call to a collaborator, in order
    bulk_calls,               \* the arguments and outcome of every add_documents_to_supabase call
    source_calls,             \* the arguments and outcome of every Source upsert
    progress,                 \* every progress_callback call
    checks,                   \* every cancellation_check call: where it was made
    \* smart_chunk_text
    text,                     \* argument, a sequence of characters
    chunk_size,               \* argument
    start,                    \* start of the next window, 0-based
    chunks,                   \* the chunks cut so far, then the returned list
    cuts,                     \* every window cut: its start, its end and the rule that set the end
    combine_i,                \* `i` of the combining loop
    current,                  \* `current` of the combining loop
    combined_chunks,          \* the chunks the combining loop has finished
    chunker_pc,               \* "idle", "called", "cutting", "combining" or "returned"
    \* split_text_for_incremental_chunking
    split_args,               \* the two limits as the caller passed them
    split_text,               \* argument `text`, a sequence of runs of characters
    max_chars_per_batch,      \* argument, then its floored value
    pdf_pages_per_batch,      \* argument, then its floored value
    page_sections,            \* the trimmed text of each page
    page_index,               \* the page the grouping loop is at, 0-based
    current_batch,            \* the page sections of the batch being filled
    current_chars,            \* their total length
    split_start,              \* `start` of the window loop
    batched_texts,            \* the batches made so far, then the returned list
    split_cuts,               \* every window cut: its start, window end, break found and end
    splitter_pc,              \* "idle", "called", "paging", "windowing" or "returned"
    \* PostgresTableQueryBuilder
    builder_table,            \* self._table
    builder_op,               \* self._op: "None" or "UPSERT"
    builder_data,             \* self._data: whether it is a list, and its rows
    builder_on_conflict,      \* self._on_conflict
    built_sql,                \* the statement _build_sql returned
    stored_rows,              \* the rows of the table in the database
    api_response,             \* APIResponse.data of execute()
    builder_pc,               \* "idle", "new", "set", "built", "executed" or "raised"
    \* db/factory.py
    factory_client,           \* _client: 0 for None, else the number of the instance
    env_provider,             \* os.environ["DB_PROVIDER"], "unset" when not set
    env_set,                  \* the credential variables that are set and not empty
    clients_built,            \* how many client instances were constructed
    factory_calls,            \* every call of the module's functions, with its outcome
    factory_pc,               \* "idle" or "loaded"
    \* the connection pool of PostgresDatabaseClient and the execute() calls on it
    pool_maxconn,             \* max_conn of the ThreadedConnectionPool
    pool_used,                \* the connections that are checked out
    executes,                 \* per thread: its execute() call and where it stands
    \* _create_source_records, the aggregation of the summary samples
    arg_metadatas,            \* argument all_metadatas: {source_id, word_count} per sample
    arg_contents,             \* argument all_contents: the content samples
    combined_contents,        \* combined_content of the source_ids handled so far
    combiner_pc               \* "idle", "called" or "returned"

inputs == <<crawl_results, crawl_type, progress_callback>>
prep == <<processed_docs, prepared_documents, url_to_full_document,
          source_word_counts, source_summary_contents, source_summary_metadatas>>
registrar == <<sources_todo, verify_todo>>
buffer == <<pending_urls, pending_chunk_numbers, pending_contents, pending_metadatas>>
stream == <<url_to_page_id, rag_setting, flush_chunk_size, delete_done, deletion_urls,
            chunk_count, chunks_stored, doc_chunk_index, batch_index, chunk_pos>>
outcome == <<result, error>>
history == <<log, bulk_calls, source_calls, progress, checks>>
\* the state of one run of process_and_store_documents
orchestrator == <<inputs, pc, doc_index, prep, registrar, buffer, stream, outcome, history>>
\* the state of one call of smart_chunk_text
chunker == <<text, chunk_size, start, chunks, cuts, combine_i, current,
             combined_chunks, chunker_pc>>
\* the state of one call of split_text_for_incremental_chunking
splitter == <<split_args, split_text, max_chars_per_batch, pdf_pages_per_batch, page_sections,
              page_index, current_batch, current_chars, split_start,
              batched_texts, split_cuts, splitter_pc>>
\* the state of one PostgresTableQueryBuilder and of the table it writes
builder == <<builder_table, builder_op, builder_data, builder_on_conflict, built_sql,
             stored_rows, api_response, builder_pc>>
\* what a step of process_and_store_documents leaves alone
\* the state of the db.factory module and of the environment it reads
factory == <<factory_client, env_provider, env_set, clients_built, factory_calls,
             factory_pc>>
\* the state of the connection pool and of the threads that use it
pooling == <<pool_maxconn, pool_used, executes>>
\* the state of one call of _create_source_records, as far as the samples go
combiner == <<arg_metadatas, arg_contents, combined_contents, combiner_pc>>
others == <<chunker, splitter, builder, factory, pooling, combiner>>
vars == <<orchestrator, others>>

NoResult == [returned |-> FALSE]
\* the flush setting before the run asks the settings service for it
NotLoaded == [kind |-> "not loaded", n |-> 0]
NoError == "none"

\* no call of smart_chunk_text is in progress
ChunkerIdle ==
    /\ text = <<>>
    /\ chunk_size = 0
    /\ start = 0
    /\ chunks = <<>>
    /\ cuts = <<>>
    /\ combine_i = 0
    /\ current = <<>>
    /\ combined_chunks = <<>>
    /\ chunker_pc = "idle"

\* no call of split_text_for_incremental_chunking is in progress
SplitterIdle ==
    /\ split_args = <<0, 0>>
    /\ split_text = <<>>
    /\ max_chars_per_batch = 0
    /\ pdf_pages_per_batch = 0
    /\ page_sections = <<>>
    /\ page_index = 0
    /\ current_batch = <<>>
    /\ current_chars = 0
    /\ split_start = 0
    /\ batched_texts = <<>>
    /\ split_cuts = <<>>
    /\ splitter_pc = "idle"

\* no statement was built yet
NoSql == [statement |-> "none", cols |-> <<>>, conflict_target |-> "",
          update_parts |-> <<>>, on_conflict |-> "none"]

\* no PostgresTableQueryBuilder exists
BuilderIdle ==
    /\ builder_table = ""
    /\ builder_op = "None"
    /\ builder_data = [is_list |-> FALSE, rows |-> <<>>]
    /\ builder_on_conflict = ""
    /\ built_sql = NoSql
    /\ stored_rows = <<>>
    /\ api_response = <<>>
    /\ builder_pc = "idle"

\* the db.factory module is not loaded
FactoryIdle ==
    /\ factory_client = 0
    /\ env_provider = "unset"
    /\ env_set = {}
    /\ clients_built = 0
    /\ factory_calls = <<>>
    /\ factory_pc = "idle"

\* no connection pool exists
PoolIdle ==
    /\ pool_maxconn = 0
    /\ pool_used = {}
    /\ executes = <<>>

\* no call of _create_source_records is followed on its own
CombinerIdle ==
    /\ arg_metadatas = <<>>
    /\ arg_contents = <<>>
    /\ combined_contents = <<>>
    /\ combiner_pc = "idle"

\* the locals of process_and_store_documents at its first statement
RunInit(results, ctype, callback, at) ==
    /\ crawl_results = results
    /\ crawl_type = ctype
    /\ progress_callback = callback
    /\ pc = at
    /\ doc_index = 1
    /\ processed_docs = 0
    /\ prepared_documents = <<>>
    /\ url_to_full_document = <<>>
    /\ source_word_counts = [s \in {SourceId} |-> 0]
    /\ source_summary_contents = <<>>
    /\ source_summary_metadatas = <<>>
    /\ sources_todo = {}
    /\ verify_todo = {}
    /\ url_to_page_id = <<>>
    /\ rag_setting = NotLoaded
    /\ flush_chunk_size = 0
    /\ pending_urls = <<>>
    /\ pending_chunk_numbers = <<>>
    /\ pending_contents = <<>>
    /\ pending_metadatas = <<>>
    /\ delete_done = FALSE
    /\ deletion_urls = <<>>
    /\ chunk_count = 0
    /\ chunks_stored = 0
    /\ doc_chunk_index = 0
    /\ batch_index = 0
    /\ chunk_pos = 0
    /\ result = NoResult
    /\ error = NoError
    /\ log = <<>>
    /\ bulk_calls = <<>>
    /\ source_calls = <<>>
    /\ progress = <<>>
    /\ checks = <<>>

Init ==
    /\ \E results \in DocSeqs, ctype \in CrawlTypes, callback \in BOOLEAN :
          RunInit(results, ctype, callback, "Preparing")
    /\ ChunkerIdle
    /\ SplitterIdle
    /\ BuilderIdle
    /\ FactoryIdle
    /\ PoolIdle
    /\ CombinerIdle

\* ------------------------------------------------------------ dictionaries
DictKeys(d) == [i \in 1..Len(d) |-> d[i][1]]

DictHas(d, k) == \E i \in 1..Len(d) : d[i][1] = k

DictGet(d, k) == d[CHOOSE i \in 1..Len(d) : d[i][1] = k][2]

\* d[k] = v: a new key goes last, an old key keeps its place
DictSet(d, k, v) ==
    IF DictHas(d, k)
    THEN [i \in 1..Len(d) |-> IF d[i][1] = k THEN <<k, v>> ELSE d[i]]
    ELSE Append(d, <<k, v>>)

\* --------------------------------------------------------------- Preparing
Event(op, ok) == [op |-> op, ok |-> ok]

\* faulty variant: only a missing url makes a document invalid
IsValidDocumentUrlOnly(doc_url, markdown_content) == doc_url # <<>>

\* `if not markdown_content or not doc_url: continue`, negated
IsValidDocument(doc_url, markdown_content) ==
    markdown_content # <<>> /\ doc_url # <<>>

\* one call of cancellation_check: the loop that made it, the document it was
\* made for and, in the chunk loop, the document's chunk index
Check(stage) ==
    [at |-> stage, doc |-> doc_index,
     chunk |-> IF stage = "chunk" THEN doc_chunk_index ELSE 0]

\* faulty variant: the handler writes the pending chunks before it re-raises
CancelAfterFlush(stage) ==
    /\ pc' = "Cancelled"
    /\ error' = "CancelledError"
    /\ log' = log \o <<Event("cancellation_check", FALSE),
                       Event("add_documents_to_supabase", TRUE)>>
                  \o (IF progress_callback THEN <<Event("progress", TRUE)>> ELSE <<>>)
    /\ bulk_calls' = Append(bulk_calls,
                            [urls |-> pending_urls,
                             chunk_numbers |-> pending_chunk_numbers,
                             contents |-> pending_contents,
                             metadatas |-> pending_metadatas,
                             delete_existing_records |-> Some(~delete_done),
                             deletion_urls |-> None, ok |-> TRUE,
                             stored |-> Len(pending_contents)])
    /\ progress' = IF progress_callback
                   THEN Append(progress, [stage |-> "cancelled",
                                          percent |-> CancelledPercent,
                                          at |-> stage])
                   ELSE progress
    /\ checks' = Append(checks, Check(stage))
    /\ UNCHANGED <<others, inputs, doc_index, prep, registrar, buffer, stream, result,
                   source_calls>>

\* the `except asyncio.CancelledError` handlers: report, then re-raise
Cancel(stage) ==
    /\ pc' = "Cancelled"
    /\ error' = "CancelledError"
    /\ log' = log \o <<Event("cancellation_check", FALSE)>>
                  \o (IF progress_callback THEN <<Event("progress", TRUE)>> ELSE <<>>)
    /\ progress' = IF progress_callback
                   THEN Append(progress, [stage |-> "cancelled",
                                          percent |-> CancelledPercent,
                                          at |-> stage])
                   ELSE progress
    /\ checks' = Append(checks, Check(stage))
    /\ UNCHANGED <<others, inputs, doc_index, prep, registrar, buffer, stream, result,
                   bulk_calls, source_calls>>

\* the cancellation check of the Preparing loop raises
PrepareCancelled ==
    /\ pc = "Preparing"
    /\ doc_index <= Len(crawl_results)
    /\ Cancel("document")

\* faulty variant: the words are counted in the summary sample
SourceWordCountOfSample(markdown_content) ==
    WordCount(Take(markdown_content, SummarySampleChars))

\* source_word_count
SourceWordCount(markdown_content) == WordCount(markdown_content)

\* one iteration of the Preparing loop, the cancellation check passing
PrepareDocument ==
    /\ pc = "Preparing"
    /\ doc_index <= Len(crawl_results)
    /\ LET doc == crawl_results[doc_index]
           doc_url == Strip(OrEmpty(doc.url))
           markdown_content == Content(doc)
           source_word_count == SourceWordCount(markdown_content.text)
       IN  IF ~IsValidDocument(doc_url, markdown_content.text)
           THEN UNCHANGED prep
           ELSE /\ processed_docs' = processed_docs + 1
                /\ url_to_full_document' =
                       DictSet(url_to_full_document, doc_url, markdown_content)
                /\ prepared_documents' =
                       Append(prepared_documents,
                              [url |-> doc_url, markdown |-> markdown_content])
                /\ source_word_counts' =
                       [source_word_counts EXCEPT ![SourceId] = @ + source_word_count]
                /\ source_summary_contents' =
                       Append(source_summary_contents,
                              Take(markdown_content.text, SummarySampleChars))
                /\ source_summary_metadatas' =
                       Append(source_summary_metadatas,
                              [source_id |-> SourceId, word_count |-> source_word_count])
    /\ doc_index' = doc_index + 1
    /\ log' = Append(log, Event("cancellation_check", TRUE))
    /\ checks' = Append(checks, Check("document"))
    /\ UNCHANGED <<others, inputs, pc, registrar, buffer, stream, outcome,
                   bulk_calls, source_calls, progress>>

Result(cc, cs, wc, docs) ==
    [returned |-> TRUE, chunk_count |-> cc, chunks_stored |-> cs,
     total_word_count |-> wc, url_to_full_document |-> docs, source_id |-> SourceId]

\* the end of the Preparing loop: return early when nothing is valid
PrepareFinish ==
    /\ pc = "Preparing"
    /\ doc_index > Len(crawl_results)
    /\ IF prepared_documents = <<>>
       THEN /\ pc' = "Done"
            /\ result' = Result(0, 0, 0, <<>>)
            /\ UNCHANGED registrar
       ELSE /\ pc' = "RegisteringSources"
            /\ sources_todo' =
                   {source_summary_metadatas[i].source_id :
                        i \in 1..Len(source_summary_metadatas)}
            /\ UNCHANGED <<verify_todo, result>>
    /\ UNCHANGED <<others, inputs, doc_index, prep, buffer, stream, error, history>>

\* ------------------------------------------------------ RegisteringSources
\* source_id_contents[source_id]
SourceIdContents(all_metadatas, all_contents, source_id) ==
    LET idx == {i \in 1..Len(all_metadatas) : all_metadatas[i].source_id = source_id}
        RECURSIVE Pick(_)
        Pick(i) == IF i > Len(all_metadatas) THEN <<>>
                   ELSE (IF i \in idx THEN <<all_contents[i]>> ELSE <<>>) \o Pick(i + 1)
    IN  Pick(1)

\* source_id_word_counts[source_id]
SourceIdWordCount(all_metadatas, source_id) ==
    LET RECURSIVE Sum(_)
        Sum(i) == IF i > Len(all_metadatas) THEN 0
                  ELSE (IF all_metadatas[i].source_id = source_id
                        THEN all_metadatas[i].word_count ELSE 0) + Sum(i + 1)
    IN  Sum(1)

\* len(s) of a text held as tokens
TextChars(s) == Chars(s, Len(s))

\* faulty variant: a sample that fills the combined content to the limit and
\* one character more is still added
FitsInclusive(combined_chars, chunk_chars) ==
    combined_chars + chunk_chars <= CombinedChars

\* `len(combined_content) + len(chunk) < 15000`
Fits(combined_chars, chunk_chars) == combined_chars + chunk_chars < CombinedChars

\* combined_content: the loop over source_contents[:3], with its break
CombinedContent(source_contents) ==
    LET first == SubSeq(source_contents, 1,
                        IF Len(source_contents) < SummarySamples
                        THEN Len(source_contents) ELSE SummarySamples)
        RECURSIVE Add(_, _)
        Add(combined_content, i) ==
            IF i > Len(first) THEN combined_content
            ELSE IF Fits(TextChars(combined_content), TextChars(first[i]))
            THEN Add(combined_content \o <<WS>> \o first[i], i + 1)
            ELSE combined_content
    IN  Add(<<>>, 1)

\* faulty variant: the fallback text counts the sources, not the samples of the source
SummaryCountingSources(summary_ok, source_id, source_contents) ==
    IF summary_ok
    THEN [kind |-> "ai", source_id |-> source_id, pages |-> 0,
          of |-> CombinedContent(source_contents)]
    ELSE [kind |-> "fallback", source_id |-> source_id, pages |-> 1]

\* the summary: the summarizer's, made of (source_id, combined_content), or
\* the templated fallback when it raises
Summary(summary_ok, source_id, source_contents) ==
    IF summary_ok
    THEN [kind |-> "ai", source_id |-> source_id, pages |-> 0,
          of |-> CombinedContent(source_contents)]
    ELSE [kind |-> "fallback", source_id |-> source_id, pages |-> Len(source_contents)]

\* the keyword arguments of update_source_info
FullSourceData(source_id, summary, word_count) ==
    [call |-> "update_source_info", source_id |-> source_id, title |-> "",
     summary |-> summary, total_word_count |-> word_count,
     fallback_creation |-> FALSE]

\* fallback_data
FallbackData(source_id, summary, word_count) ==
    [call |-> "fallback_upsert", source_id |-> source_id, title |-> source_id,
     summary |-> summary, total_word_count |-> word_count,
     fallback_creation |-> TRUE]

\* faulty variant: the minimal upsert is retried once
FallbackAttemptsRetried == 1 + 1

\* how many times the minimal upsert is issued after update_source_info raised
FallbackAttempts == 1

\* faulty variant: the read-back loop is skipped
AfterSourceUpsertsUnverified == "RegisteringPages"

\* where the run goes once every unique source_id is upserted
AfterSourceUpserts == "VerifyingSources"

\* one iteration of `for source_id in unique_source_ids`: summary, full
\* upsert, and the minimal upsert when the full one raises
CreateSourceRecord ==
    /\ pc = "RegisteringSources"
    /\ \E source_id \in sources_todo, summary_ok \in BOOLEAN,
          full_ok \in BOOLEAN, fallback_ok \in BOOLEAN :
          LET source_contents ==
                  SourceIdContents(source_summary_metadatas,
                                   source_summary_contents, source_id)
              word_count == SourceIdWordCount(source_summary_metadatas, source_id)
              summary == Summary(summary_ok, source_id, source_contents)
              full == FullSourceData(source_id, summary, word_count)
              fallback == FallbackData(source_id, summary, word_count)
              written == full_ok \/ fallback_ok
          IN  \* the minimal upsert is not issued when the full one succeeds
              /\ full_ok => fallback_ok
              /\ source_calls' =
                     source_calls \o <<[data |-> full, ok |-> full_ok]>>
                         \o (IF full_ok THEN <<>>
                             ELSE [i \in 1..FallbackAttempts |->
                                      [data |-> fallback, ok |-> fallback_ok]])
              /\ log' = log \o <<Event("extract_source_summary", summary_ok),
                                Event("update_source_info", full_ok)>>
                            \o (IF full_ok THEN <<>>
                                ELSE [i \in 1..FallbackAttempts |->
                                         Event("fallback_upsert", fallback_ok)])
              /\ sources_todo' = IF written THEN sources_todo \ {source_id}
                                 ELSE sources_todo
              /\ IF ~written
                 THEN /\ pc' = "Failed"
                      /\ error' = "RuntimeError"
                      /\ UNCHANGED verify_todo
                 ELSE IF sources_todo \ {source_id} = {}
                 THEN /\ pc' = AfterSourceUpserts
                      /\ verify_todo' =
                             {source_summary_metadatas[i].source_id :
                                  i \in 1..Len(source_summary_metadatas)}
                      /\ UNCHANGED error
                 ELSE UNCHANGED <<pc, verify_todo, error>>
    /\ UNCHANGED <<others, inputs, doc_index, prep, buffer, stream, result,
                   bulk_calls, progress, checks>>

\* faulty variant: an empty read-back is not noticed
SourceCheckIgnored(found) == TRUE

\* `if not source_check.data: raise`, negated
SourceCheckPasses(found) == found

\* one iteration of the read-back loop
VerifySource ==
    /\ pc = "VerifyingSources"
    /\ \E source_id \in verify_todo, found \in BOOLEAN :
          /\ log' = Append(log, Event("select_source", found))
          /\ IF SourceCheckPasses(found)
             THEN /\ verify_todo' = verify_todo \ {source_id}
                  /\ pc' = IF verify_todo \ {source_id} = {}
                           THEN "RegisteringPages" ELSE pc
                  /\ UNCHANGED error
             ELSE /\ pc' = "Failed"
                  /\ error' = "Exception"
                  /\ UNCHANGED verify_todo
    /\ UNCHANGED <<others, inputs, doc_index, prep, sources_todo, buffer, stream, result,
                   bulk_calls, source_calls, progress, checks>>

\* -------------------------------------------------------- RegisteringPages
\* faulty variant: the number of documents is not looked at
IsLlmsFullAnyCount(ctype, docs) ==
    \/ ctype = "llms-txt"
    \/ (docs # <<>> /\ EndsWithLlmsFull(DictKeys(docs)[1]))

\* is_llms_full
IsLlmsFull(ctype, docs) ==
    \/ ctype = "llms-txt"
    \/ (Len(docs) = 1 /\ EndsWithLlmsFull(DictKeys(docs)[1]))

\* section.url for the s-th section of the document at base_url
SectionUrl(base_url, s) == base_url \o <<"#section", s>>

\* section.content of the s-th section, with the chunks the chunker makes of it
SectionContent(content, s) ==
    [text |-> <<"section", s>>, batches |-> <<content.sections[s]>>, sections |-> <<>>]

\* the mapping the page store returns: one page id per url, in order
PageIds(urls) == [i \in 1..Len(urls) |-> <<urls[i], i>>]

\* url_to_page_id.get(url)
PageIdOf(pages, url) == IF DictHas(pages, url) THEN DictGet(pages, url) ELSE 0

\* DOCUMENT_STORAGE_FLUSH_CHUNKS as the settings service may hold it
FlushSettings ==
    { [kind |-> "absent", n |-> 0], [kind |-> "invalid", n |-> 0],
      [kind |-> "unavailable", n |-> 0],
      [kind |-> "int", n |-> 10], [kind |-> "int", n |-> 60] }

Max(a, b) == IF a >= b THEN a ELSE b

\* faulty variant: the configured value is used as it is
FlushChunkSizeUnfloored(setting) ==
    IF setting.kind = "int" THEN setting.n ELSE DefaultFlushChunks

\* flush_chunk_size
FlushChunkSize(setting) ==
    IF setting.kind = "int" THEN Max(MinFlushChunks, setting.n)
    ELSE DefaultFlushChunks

\* the page write of the run: store_llms_full_sections in multi-section mode,
\* store_pages (then the flush setting is loaded) in standard mode
RegisterPages ==
    /\ pc = "RegisteringPages"
    /\ \E ok \in BOOLEAN, setting \in FlushSettings :
          LET is_llms_full == IsLlmsFull(crawl_type, url_to_full_document)
              multi == is_llms_full /\ url_to_full_document # <<>>
              base_url == url_to_full_document[1][1]
              content == url_to_full_document[1][2]
              section_urls == [s \in 1..Len(content.sections) |-> SectionUrl(base_url, s)]
              page_urls == [i \in 1..Len(prepared_documents) |-> prepared_documents[i].url]
          IN  /\ log' = Append(log, Event(IF multi THEN "store_llms_full_sections"
                                          ELSE "store_pages", ok))
              \* the flush setting is read in standard mode only
              /\ multi => setting.kind = "absent"
              /\ IF ~ok
                 THEN /\ pc' = "Failed"
                      /\ error' = "PageStorageError"
                      /\ UNCHANGED <<url_to_page_id, rag_setting, flush_chunk_size,
                                      deletion_urls>>
                 ELSE IF multi
                 THEN /\ pc' = "StreamingSections"
                      /\ url_to_page_id' = PageIds(section_urls)
                      /\ UNCHANGED <<error, rag_setting, flush_chunk_size, deletion_urls>>
                 ELSE /\ pc' = "Streaming"
                      /\ url_to_page_id' = PageIds(page_urls)
                      /\ rag_setting' = setting
                      /\ flush_chunk_size' = FlushChunkSize(setting)
                      /\ deletion_urls' = DictKeys(url_to_full_document)
                      /\ UNCHANGED error
    /\ doc_index' = 1
    /\ UNCHANGED <<others, inputs, prep, registrar, buffer, delete_done, chunk_count,
                   chunks_stored, doc_chunk_index, batch_index, chunk_pos, result,
                   bulk_calls, source_calls, progress, checks>>

\* --------------------------------------------------------------- Streaming
\* the metadata dict of one chunk
Metadata(url, page_id, ctype, chunk_index) ==
    [url |-> url, source_id |-> SourceId, page_id |-> page_id,
     crawl_type |-> ctype, chunk_index |-> chunk_index]

\* what add_documents_to_supabase may report as chunks_stored for n chunks:
\* all of them, or fewer (here one fewer)
StoredOutcomes(n) == {n, n - 1} \cap Nat

\* one add_documents_to_supabase call, as recorded
BulkCall(urls, numbers, contents, metadatas, delete_existing, del_urls, ok, stored) ==
    [urls |-> urls, chunk_numbers |-> numbers, contents |-> contents,
     metadatas |-> metadatas, delete_existing_records |-> delete_existing,
     deletion_urls |-> del_urls, ok |-> ok, stored |-> stored]

\* faulty variant: a flushed list keeps its chunks
ClearedNot(pending) == pending

\* a pending list after `.clear()`
Cleared(pending) == <<>>

\* faulty variant: every flush asks for the delete
DeleteExistingAlways(done) == TRUE

\* delete_existing_records=not delete_done
DeleteExisting(done) == ~done

\* deletion_urls=deletion_urls if not delete_done else None
DeletionUrlsArg(done, urls) == IF ~done THEN Some(urls) ELSE None

\* faulty variant: the count of the last flush replaces the running total
AddStoredOverwrites(total, stored) == stored

\* chunks_stored += storage_stats.get("chunks_stored", 0)
AddStored(total, stored) == total + stored

\* faulty variant: the flush waits for one chunk more than the threshold
ShouldFlushLate(n, threshold) == n > threshold

\* `if len(pending_contents) >= flush_chunk_size`
ShouldFlush(n, threshold) == n >= threshold

\* faulty variant: the exception of the bulk writer is swallowed
AfterBulkWriteErrorSwallowed == "Streaming"

\* where the run goes when add_documents_to_supabase raises
AfterBulkWriteError == "Failed"

\* index of the first text batch from b on that has a chunk, 0 when there is none
RECURSIVE FirstBatchFrom(_, _)
FirstBatchFrom(batches, b) ==
    IF b > Len(batches) THEN 0
    ELSE IF batches[b] > 0 THEN b
    ELSE FirstBatchFrom(batches, b + 1)

\* the chunk the nested loops reach after chunk i of batch b: <<batch, chunk>>,
\* <<0, 0>> when the document is finished
NextPosition(batches, b, i) ==
    IF b > 0 /\ i < batches[b] THEN <<b, i + 1>>
    ELSE LET nb == FirstBatchFrom(batches, b + 1)
         IN  IF nb = 0 THEN <<0, 0>> ELSE <<nb, 1>>

\* faulty variant: the check is made before every chunk
ChunkCheckDueAlways(index) == TRUE

\* `doc_chunk_index % 10 == 0`
ChunkCheckDue(index) == index % ChunkCheckEvery = 0

\* the cancellation check at the top of the document loop raises
StreamCancelledAtDocument ==
    /\ pc = "Streaming"
    /\ doc_index <= Len(prepared_documents)
    /\ batch_index = 0
    /\ Cancel("chunking-document")

\* the top of one iteration of the document loop: the check passes, the
\* document is split, doc_chunk_index restarts
StartDocument ==
    /\ pc = "Streaming"
    /\ doc_index <= Len(prepared_documents)
    /\ batch_index = 0
    /\ LET batches == prepared_documents[doc_index].markdown.batches
           first == NextPosition(batches, 0, 0)
       IN  /\ doc_chunk_index' = 0
           /\ batch_index' = first[1]
           /\ chunk_pos' = first[2]
           /\ doc_index' = IF first[1] = 0 THEN doc_index + 1 ELSE doc_index
    /\ log' = Append(log, Event("cancellation_check", TRUE))
    /\ checks' = Append(checks, Check("chunking-document"))
    /\ UNCHANGED <<others, inputs, pc, prep, registrar, buffer, url_to_page_id,
                   rag_setting, flush_chunk_size, delete_done, deletion_urls, chunk_count,
                   chunks_stored, outcome, bulk_calls, source_calls, progress>>

\* the per-chunk cancellation check raises
StreamCancelledAtChunk ==
    /\ pc = "Streaming"
    /\ batch_index > 0
    /\ ChunkCheckDue(doc_chunk_index)
    /\ Cancel("chunk")

\* one iteration of the chunk loop: the check (when due) passes, the chunk is
\* appended to the pending lists, and the lists are flushed when full
ProcessChunk ==
    /\ pc = "Streaming"
    /\ batch_index > 0
    /\ LET doc == prepared_documents[doc_index]
           doc_url == doc.url
           chunk == <<doc_index, batch_index, chunk_pos>>
           urls == Append(pending_urls, doc_url)
           numbers == Append(pending_chunk_numbers, doc_chunk_index)
           contents == Append(pending_contents, chunk)
           metadatas == Append(pending_metadatas,
                               Metadata(doc_url, PageIdOf(url_to_page_id, doc_url),
                                        crawl_type, doc_chunk_index))
           due == ChunkCheckDue(doc_chunk_index)
           checked == IF due THEN <<Event("cancellation_check", TRUE)>> ELSE <<>>
           next == NextPosition(doc.markdown.batches, batch_index, chunk_pos)
       IN  /\ chunk_count' = chunk_count + 1
           /\ doc_chunk_index' = doc_chunk_index + 1
           /\ IF ShouldFlush(Len(contents), flush_chunk_size)
              THEN \E ok \in BOOLEAN, stored \in StoredOutcomes(Len(contents)) :
                      \* a call that raises reports nothing
                      /\ ~ok => stored = Len(contents)
                      /\ bulk_calls' =
                             Append(bulk_calls,
                                    BulkCall(urls, numbers, contents, metadatas,
                                             Some(DeleteExisting(delete_done)),
                                             DeletionUrlsArg(delete_done, deletion_urls),
                                             ok, IF ok THEN stored ELSE 0))
                      /\ log' = log \o checked \o <<Event("add_documents_to_supabase", ok)>>
                      /\ IF ok
                         THEN /\ chunks_stored' = AddStored(chunks_stored, stored)
                              /\ delete_done' = TRUE
                              /\ pending_urls' = Cleared(urls)
                              /\ pending_chunk_numbers' = Cleared(numbers)
                              /\ pending_contents' = Cleared(contents)
                              /\ pending_metadatas' = Cleared(metadatas)
                              /\ UNCHANGED <<pc, error>>
                         ELSE /\ pc' = AfterBulkWriteError
                              /\ error' = "StorageError"
                              /\ pending_urls' = urls
                              /\ pending_chunk_numbers' = numbers
                              /\ pending_contents' = contents
                              /\ pending_metadatas' = metadatas
                              /\ UNCHANGED <<chunks_stored, delete_done>>
              ELSE /\ pending_urls' = urls
                   /\ pending_chunk_numbers' = numbers
                   /\ pending_contents' = contents
                   /\ pending_metadatas' = metadatas
                   /\ log' = log \o checked
                   /\ UNCHANGED <<pc, error, chunks_stored, delete_done, bulk_calls>>
           /\ checks' = IF due THEN Append(checks, Check("chunk")) ELSE checks
           /\ batch_index' = next[1]
           /\ chunk_pos' = next[2]
           /\ doc_index' = IF next[1] = 0 THEN doc_index + 1 ELSE doc_index
    /\ UNCHANGED <<others, inputs, prep, registrar, url_to_page_id, rag_setting,
                   flush_chunk_size,
                   deletion_urls, result, source_calls, progress>>

\* the end of the document loop: the last flush_pending_chunks, then the return
FinishStreaming ==
    /\ pc = "Streaming"
    /\ doc_index > Len(prepared_documents)
    /\ IF pending_contents = <<>>
       THEN /\ pc' = "Done"
            /\ result' = Result(chunk_count, chunks_stored,
                                source_word_counts[SourceId], url_to_full_document)
            /\ UNCHANGED <<buffer, chunks_stored, delete_done, error, log, bulk_calls>>
       ELSE \E ok \in BOOLEAN, stored \in StoredOutcomes(Len(pending_contents)) :
               /\ ~ok => stored = Len(pending_contents)
               /\ bulk_calls' =
                      Append(bulk_calls,
                             BulkCall(pending_urls, pending_chunk_numbers,
                                      pending_contents, pending_metadatas,
                                      Some(DeleteExisting(delete_done)),
                                      DeletionUrlsArg(delete_done, deletion_urls),
                                      ok, IF ok THEN stored ELSE 0))
               /\ log' = Append(log, Event("add_documents_to_supabase", ok))
               /\ IF ok
                  THEN /\ chunks_stored' = AddStored(chunks_stored, stored)
                       /\ delete_done' = TRUE
                       /\ pending_urls' = Cleared(pending_urls)
                       /\ pending_chunk_numbers' = Cleared(pending_chunk_numbers)
                       /\ pending_contents' = Cleared(pending_contents)
                       /\ pending_metadatas' = Cleared(pending_metadatas)
                       /\ pc' = "Done"
                       /\ result' = Result(chunk_count,
                                           AddStored(chunks_stored, stored),
                                           source_word_counts[SourceId],
                                           url_to_full_document)
                       /\ UNCHANGED error
                  ELSE /\ pc' = AfterBulkWriteError
                       /\ error' = "StorageError"
                       /\ UNCHANGED <<buffer, chunks_stored, delete_done, result>>
    /\ UNCHANGED <<others, inputs, doc_index, prep, registrar, url_to_page_id,
                   rag_setting, flush_chunk_size, deletion_urls, chunk_count, doc_chunk_index,
                   batch_index, chunk_pos, source_calls, progress, checks>>

\* ------------------------------------------------- multi-section streaming
\* the k-th chunk of the sections from s on: <<section, position in the section>>
RECURSIVE ChunkAt(_, _, _)
ChunkAt(sections, s, k) ==
    IF k <= sections[s] THEN <<s, k>> ELSE ChunkAt(sections, s + 1, k - sections[s])

\* how many chunks the sections make together
RECURSIVE ChunkTotal(_, _)
ChunkTotal(sections, s) ==
    IF s > Len(sections) THEN 0 ELSE sections[s] + ChunkTotal(sections, s + 1)

\* the position in prepared_documents of the document whose markdown
\* url_to_full_document holds for url: the last one prepared with it
HolderOf(url) ==
    CHOOSE d \in 1..Len(prepared_documents) :
        /\ prepared_documents[d].url = url
        /\ \A e \in (d + 1)..Len(prepared_documents) : prepared_documents[e].url # url

\* the multi-section branch after the page write: every section is chunked
\* into the all_* lists, which one add_documents_to_supabase call receives
WriteSectionChunks ==
    /\ pc = "StreamingSections"
    /\ LET base_url == url_to_full_document[1][1]
           content == url_to_full_document[1][2]
           sections == content.sections
           total == ChunkTotal(sections, 1)
           holder == HolderOf(base_url)
           url(k) == SectionUrl(base_url, ChunkAt(sections, 1, k)[1])
           all_urls == [k \in 1..total |-> url(k)]
           all_chunk_numbers == [k \in 1..total |-> ChunkAt(sections, 1, k)[2] - 1]
           all_contents ==
               [k \in 1..total |->
                   <<holder, ChunkAt(sections, 1, k)[1], ChunkAt(sections, 1, k)[2]>>]
           all_metadatas ==
               [k \in 1..total |->
                   Metadata(url(k), PageIdOf(url_to_page_id, url(k)),
                            "llms_full", ChunkAt(sections, 1, k)[2] - 1)]
           section_docs ==
               [s \in 1..Len(sections) |->
                   <<SectionUrl(base_url, s), SectionContent(content, s)>>]
       IN  \E ok \in BOOLEAN, stored \in StoredOutcomes(total) :
              /\ ~ok => stored = total
              /\ url_to_full_document' = section_docs
              /\ bulk_calls' =
                     Append(bulk_calls,
                            BulkCall(all_urls, all_chunk_numbers, all_contents,
                                     all_metadatas, None, None,
                                     ok, IF ok THEN stored ELSE 0))
              /\ log' = Append(log, Event("add_documents_to_supabase", ok))
              /\ IF ok
                 THEN /\ pc' = "Done"
                      /\ chunk_count' = total
                      /\ chunks_stored' = stored
                      /\ result' = Result(total, stored,
                                          source_word_counts[SourceId], section_docs)
                      /\ UNCHANGED error
                 ELSE /\ pc' = AfterBulkWriteError
                      /\ error' = "StorageError"
                      /\ UNCHANGED <<chunk_count, chunks_stored, result>>
    /\ UNCHANGED <<others, inputs, doc_index, processed_docs, prepared_documents,
                   source_word_counts, source_summary_contents,
                   source_summary_metadatas, registrar, buffer, url_to_page_id,
                   rag_setting, flush_chunk_size, delete_done, deletion_urls, doc_chunk_index,
                   batch_index, chunk_pos, source_calls, progress, checks>>

Next ==
    \/ PrepareCancelled
    \/ PrepareDocument
    \/ PrepareFinish
    \/ CreateSourceRecord
    \/ VerifySource
    \/ RegisterPages
    \/ StreamCancelledAtDocument
    \/ StartDocument
    \/ StreamCancelledAtChunk
    \/ ProcessChunk
    \/ FinishStreaming
    \/ WriteSectionChunks

Spec == Init /\ [][Next]_vars

\* ========================================================= smart_chunk_text
\* A text is a sequence of characters. The characters str.strip() removes:
Whitespace == {" ", "\n"}

\* n times the character c
Run(c, n) == [k \in 1..n |-> c]

\* the backquote character
Backquote == "backquote"

\* three backquotes
Fence == <<Backquote, Backquote, Backquote>>
ParagraphBreak == <<"\n", "\n">>
SentenceBreak == <<".", " ">>

\* s[a:b], 0-based, b clipped to the length
Slice(s, a, b) == SubSeq(s, a + 1, IF b < Len(s) THEN b ELSE Len(s))

\* s.strip() for a text of characters
StripText(s) ==
    LET first == {k \in 1..Len(s) :
                     /\ s[k] \notin Whitespace
                     /\ \A j \in 1..(k - 1) : s[j] \in Whitespace}
        last == {k \in 1..Len(s) :
                    /\ s[k] \notin Whitespace
                    /\ \A j \in (k + 1)..Len(s) : s[j] \in Whitespace}
    IN  IF first = {} THEN <<>>
        ELSE SubSeq(s, CHOOSE k \in first : TRUE, CHOOSE k \in last : TRUE)

\* s.rfind(sub): the 0-based position of the last occurrence, -1 when none
RFind(s, sub) ==
    LET hits == {k \in 0..(Len(s) - Len(sub)) : SubSeq(s, k + 1, k + Len(sub)) = sub}
    IN  IF hits = {} THEN -1
        ELSE CHOOSE k \in hits : \A j \in hits : j <= k

\* faulty variant: every candidate qualifies, also one at position 0
PastThresholdAlways(pos, size) == TRUE

\* faulty variant: a candidate standing exactly at 30% qualifies
PastThresholdInclusive(pos, size) == 10 * pos >= 3 * size

\* `pos > chunk_size * 0.3`
PastThreshold(pos, size) == 10 * pos > 3 * size

\* the texts the chunker is given are joined from these pieces
TextPieces ==
    { Run("y", 120), Run("z", 210), ParagraphBreak,
      <<"x", "x", "x", "x", ".", " ">>, Fence, <<" ">> }

RECURSIVE Texts(_)
Texts(n) ==
    IF n = 0 THEN {<<>>}
    ELSE Texts(n - 1) \cup {t \o piece : t \in Texts(n - 1), piece \in TextPieces}

ChunkSizes == {1, 3, 10, 200}

\* "x" * 1600 + "```code```" + "y" * 3000
FencedText ==
    Run("x", 1600) \o Fence \o <<"c", "o", "d", "e">> \o Fence \o Run("y", 3000)

\* "xxx. " + "y" * 120: with chunk_size 10 the only break candidate of the
\* first window, the sentence break, stands at position 3
ThresholdText == <<"x", "x", "x", ".", " ">> \o Run("y", 120)

\* the calls explored: <<text, chunk_size>>
ChunkerCalls ==
    {<<t, size>> \in Texts(MaxPieces) \X ChunkSizes : Len(t) <= MaxWindows * size}
        \cup {<<FencedText, DefaultChunkSize>>}
        \cup {<<ThresholdText, 10>>}

\* no run of process_and_store_documents is in progress
RunIdle == RunInit(<<>>, "normal", FALSE, "Idle")

InitChunk ==
    /\ RunIdle
    /\ SplitterIdle
    /\ BuilderIdle
    /\ FactoryIdle
    /\ PoolIdle
    /\ CombinerIdle
    /\ \E call \in ChunkerCalls :
          /\ text = call[1]
          /\ chunk_size = call[2]
    /\ start = 0
    /\ chunks = <<>>
    /\ cuts = <<>>
    /\ combine_i = 0
    /\ current = <<>>
    /\ combined_chunks = <<>>
    /\ chunker_pc = "called"

\* `if not text: return []`, else the locals of the cutting loop
EnterChunker ==
    /\ chunker_pc = "called"
    /\ chunker_pc' = IF text = <<>> THEN "returned" ELSE "cutting"
    /\ start' = 0
    /\ chunks' = <<>>
    /\ UNCHANGED <<orchestrator, combiner, pooling, splitter, builder, factory, text, chunk_size, cuts, combine_i, current,
                   combined_chunks>>

\* faulty variant: the rest of the text is never taken whole
AtEndOfTextNever(end, text_length) == FALSE

\* `if end >= text_length`
AtEndOfText(end, text_length) == end >= text_length

\* the end of the window text[start:start + chunk_size] and the rule that
\* set it: the if / elif / elif of the loop body
WindowCut(window, from, size) ==
    LET code_block_pos == RFind(window, Fence)
        last_break == RFind(window, ParagraphBreak)
        last_period == RFind(window, SentenceBreak)
    IN  IF code_block_pos # -1 /\ PastThreshold(code_block_pos, size)
        THEN [end |-> from + code_block_pos, rule |-> "fence"]
        ELSE IF last_break # -1
        THEN (IF PastThreshold(last_break, size)
              THEN [end |-> from + last_break, rule |-> "paragraph"]
              ELSE [end |-> from + size, rule |-> "hard"])
        ELSE IF last_period # -1
        THEN (IF PastThreshold(last_period, size)
              THEN [end |-> from + last_period + 1, rule |-> "sentence"]
              ELSE [end |-> from + size, rule |-> "hard"])
        ELSE [end |-> from + size, rule |-> "hard"]

\* faulty variant: an empty chunk is kept
KeepChunkAlways(chunk) == TRUE

\* `if chunk:`
KeepChunk(chunk) == chunk # <<>>

\* faulty variant: the next window starts one character late
NextStartSkips(end) == end + 1

\* `start = end`
NextStart(end) == end

\* one iteration of `while start < text_length`; when the loop ends, `if
\* chunks:` and the locals of the combining loop
CutWindow ==
    /\ chunker_pc = "cutting"
    /\ start < Len(text)
    /\ LET text_length == Len(text)
           rest == AtEndOfText(start + chunk_size, text_length)
           cut == IF rest THEN [end |-> text_length, rule |-> "rest"]
                  ELSE WindowCut(Slice(text, start, start + chunk_size),
                                 start, chunk_size)
           chunk == StripText(Slice(text, start, cut.end))
           kept == IF KeepChunk(chunk) THEN Append(chunks, chunk) ELSE chunks
           finished == rest \/ NextStart(cut.end) >= text_length
       IN  /\ cuts' = Append(cuts, [start |-> start, end |-> cut.end,
                                    rule |-> cut.rule])
           /\ chunks' = kept
           /\ start' = IF rest THEN start ELSE NextStart(cut.end)
           /\ IF ~finished
              THEN /\ UNCHANGED <<chunker_pc, combine_i, current, combined_chunks>>
              ELSE IF kept = <<>>
              THEN /\ chunker_pc' = "returned"
                   /\ UNCHANGED <<combine_i, current, combined_chunks>>
              ELSE /\ chunker_pc' = "combining"
                   /\ combine_i' = 0
                   /\ current' = kept[1]
                   /\ combined_chunks' = <<>>
    /\ UNCHANGED <<orchestrator, combiner, pooling, splitter, builder, factory, text, chunk_size>>

\* faulty variant: no chunk is ever joined to the next one
IsSmallNever(chunk) == FALSE

\* `len(current) < 200`
IsSmall(chunk) == Len(chunk) < MinChunkChars

\* one iteration of `while len(current) < 200 and i + 1 < len(chunks)`
FuseNext ==
    /\ chunker_pc = "combining"
    /\ IsSmall(current)
    /\ combine_i + 1 < Len(chunks)
    /\ combine_i' = combine_i + 1
    /\ current' = current \o ParagraphBreak \o chunks[combine_i + 2]
    /\ UNCHANGED <<orchestrator, combiner, pooling, splitter, builder, factory, text, chunk_size, start, chunks, cuts,
                   combined_chunks, chunker_pc>>

\* the end of one iteration of `while i < len(chunks)`: `current` is
\* appended, and the next chunk is taken or the combined list is returned
AppendCombined ==
    /\ chunker_pc = "combining"
    /\ ~(IsSmall(current) /\ combine_i + 1 < Len(chunks))
    /\ combine_i' = combine_i + 1
    /\ combined_chunks' = Append(combined_chunks, current)
    /\ IF combine_i + 1 < Len(chunks)
       THEN /\ current' = chunks[combine_i + 2]
            /\ UNCHANGED <<chunks, chunker_pc>>
       ELSE /\ chunks' = Append(combined_chunks, current)
            /\ chunker_pc' = "returned"
            /\ UNCHANGED current
    /\ UNCHANGED <<orchestrator, combiner, pooling, splitter, builder, factory, text, chunk_size, start, cuts>>

NextChunk ==
    \/ EnterChunker
    \/ CutWindow
    \/ FuseNext
    \/ AppendCombined

SpecChunk == InitChunk /\ [][NextChunk]_vars

\* ====================================== split_text_for_incremental_chunking
\* Here a text is a sequence of runs, each a number n of characters of one
\* kind: letters, newlines, spaces, or a page marker line "--- Page p ---"
\* standing at the start of a line, with its line end when it has one.
Letters(n) == [kind |-> "letters", n |-> n, page |-> 0]
Newlines(n) == [kind |-> "newline", n |-> n, page |-> 0]
Spaces(n) == [kind |-> "space", n |-> n, page |-> 0]

\* len("--- Page p ---")
MarkerChars(p) == 13 + (IF p < 10 THEN 1 ELSE IF p < 100 THEN 2 ELSE 3)

\* the line "--- Page p ---\n"
Marker(p) == [kind |-> "marker", n |-> MarkerChars(p) + 1, page |-> p]

\* the number of characters in the runs from the lo-th to the hi-th
RECURSIVE RunChars(_, _, _)
RunChars(t, lo, hi) ==
    IF lo > hi THEN 0
    ELSE IF lo = hi THEN t[lo].n
    ELSE RunChars(t, lo, (lo + hi) \div 2) + RunChars(t, (lo + hi) \div 2 + 1, hi)

\* len(text)
TextLen(t) == RunChars(t, 1, Len(t))

\* the 0-based position of the first character of the k-th run
RunStart(t, k) == RunChars(t, 1, k - 1)

\* the position of every run, and the length of the text after the last
RunStarts(t) == [k \in 1..(Len(t) + 1) |-> RunStart(t, k)]

\* text[a:b], given the positions of the runs of text
SliceAt(t, starts, a, b) ==
    LET lo(k) == IF starts[k] > a THEN starts[k] ELSE a
        hi(k) == IF starts[k + 1] < b THEN starts[k + 1] ELSE b
        clipped == [k \in 1..Len(t) |->
                       [t[k] EXCEPT !.n = IF hi(k) > lo(k) THEN hi(k) - lo(k) ELSE 0]]
    IN  SelectSeq(clipped, LAMBDA r : r.n > 0)

\* text[a:b]
SliceRuns(t, a, b) == SliceAt(t, RunStarts(t), a, b)

\* text.strip(): the blank runs at both ends go, and so does the line end of
\* a marker the text ends with
StripRuns(t) ==
    LET solid == {k \in 1..Len(t) : t[k].kind \in {"letters", "marker"}}
        first == CHOOSE k \in solid : \A j \in solid : k <= j
        last == CHOOSE k \in solid : \A j \in solid : j <= k
        kept == SubSeq(t, first, last)
    IN  IF solid = {} THEN <<>>
        ELSE IF t[last].kind = "marker" /\ t[last].n > MarkerChars(t[last].page)
        THEN [kept EXCEPT ![Len(kept)].n = MarkerChars(t[last].page)]
        ELSE kept

\* whether the character at 0-based position pos of t is a newline
IsNewlineAt(t, pos) ==
    \E k \in 1..Len(t) :
        /\ RunStart(t, k) <= pos
        /\ pos < RunStart(t, k) + t[k].n
        /\ \/ t[k].kind = "newline"
           \/ /\ t[k].kind = "marker"
              /\ t[k].n > MarkerChars(t[k].page)
              /\ pos = RunStart(t, k) + t[k].n - 1

\* window.rfind("\n\n")
RFindBreak(window) ==
    LET near == UNION {(RunStart(window, k) - 1)..(RunStart(window, k) + window[k].n - 1) :
                          k \in {j \in 1..Len(window) :
                                      window[j].kind \in {"newline", "marker"}}}
        hits == {pos \in near : /\ pos >= 0
                                /\ IsNewlineAt(window, pos)
                                /\ IsNewlineAt(window, pos + 1)}
    IN  IF hits = {} THEN -1 ELSE CHOOSE pos \in hits : \A j \in hits : j <= pos

\* "\n\n".join(sections)
JoinSections(sections) ==
    LET RECURSIVE Join(_, _)
        Join(lo, hi) ==
            IF lo > hi THEN <<>>
            ELSE IF lo = hi THEN sections[lo]
            ELSE Join(lo, (lo + hi) \div 2) \o <<Newlines(2)>>
                     \o Join((lo + hi) \div 2 + 1, hi)
    IN  Join(1, Len(sections))

\* the lengths of page text explored
PageBodies == {100, 4985, 12000}

\* one page: its marker line, its text and a line end
Page(p, body) == <<Marker(p), Letters(body), Newlines(1)>>

\* the texts of n pages, numbered from 1
RECURSIVE PagedTexts(_)
PagedTexts(n) ==
    IF n = 0 THEN {<<>>}
    ELSE {t \o Page(n, body) : t \in PagedTexts(n - 1), body \in PageBodies}

\* what may stand before the first marker
Preambles == {<<>>, <<Letters(50), Newlines(1)>>}

\* the runs a text without markers is joined from
PlainRuns == {Letters(4000), Letters(6000), Letters(7000), Letters(12000),
              Newlines(2), Spaces(1)}

RECURSIVE PlainTexts(_)
PlainTexts(n) ==
    IF n = 0 THEN {<<>>}
    ELSE PlainTexts(n - 1) \cup {t \o <<r>> : t \in PlainTexts(n - 1), r \in PlainRuns}

\* 100 short pages
HundredPages ==
    LET RECURSIVE Pages(_)
        Pages(n) == IF n = 0 THEN <<>> ELSE Pages(n - 1) \o Page(n, 100)
    IN  Pages(100)

MaxCharsArgs == {5000, 15000}
PdfPagesArgs == {0, 2, 75}

\* the calls explored: <<text, max_chars_per_batch, pdf_pages_per_batch>>
SplitterCalls ==
    ({pre \o t : pre \in Preambles, t \in UNION {PagedTexts(n) : n \in 1..MaxPages}}
         \cup PlainTexts(MaxRuns)) \X MaxCharsArgs \X PdfPagesArgs
        \cup {<<HundredPages, DefaultMaxChars, DefaultPdfPages>>}

InitSplit ==
    /\ RunIdle
    /\ ChunkerIdle
    /\ BuilderIdle
    /\ FactoryIdle
    /\ PoolIdle
    /\ CombinerIdle
    /\ \E call \in SplitterCalls :
          /\ split_text = call[1]
          /\ max_chars_per_batch = call[2]
          /\ pdf_pages_per_batch = call[3]
          /\ split_args = <<call[2], call[3]>>
    /\ page_sections = <<>>
    /\ page_index = 0
    /\ current_batch = <<>>
    /\ current_chars = 0
    /\ split_start = 0
    /\ batched_texts = <<>>
    /\ split_cuts = <<>>
    /\ splitter_pc = "called"

\* the runs of t that are page markers: page_marker_pattern.finditer(text)
PageMarkers(t) == {k \in 1..Len(t) : t[k].kind = "marker"}

\* page_sections: the text from each marker to the next one (or to the end),
\* trimmed, when not empty
PageSections(t) ==
    LET markers == PageMarkers(t)
        ordered == SelectSeq([k \in 1..Len(t) |-> k], LAMBDA k : k \in markers)
        \* text[start:end]: both positions are where a run begins
        section(i) ==
            StripRuns(SubSeq(t, ordered[i],
                             IF i + 1 <= Len(ordered)
                             THEN ordered[i + 1] - 1 ELSE Len(t)))
    IN  SelectSeq([i \in 1..Len(ordered) |-> section(i)], LAMBDA sec : sec # <<>>)

\* faulty variant: the character limit is taken as passed
UnflooredMaxChars(limit) == limit

\* `max_chars_per_batch = max(10_000, int(max_chars_per_batch))`
FlooredMaxChars(limit) == Max(MinMaxChars, limit)

\* `pdf_pages_per_batch = max(1, int(pdf_pages_per_batch))`
FlooredPdfPages(limit) == Max(MinPdfPages, limit)

\* `if not text: return []`, the floors of the two limits, the search for
\* page markers and the locals of the loop that follows
EnterSplitter ==
    /\ splitter_pc = "called"
    /\ max_chars_per_batch' = FlooredMaxChars(max_chars_per_batch)
    /\ pdf_pages_per_batch' = FlooredPdfPages(pdf_pages_per_batch)
    /\ batched_texts' = <<>>
    /\ current_batch' = <<>>
    /\ current_chars' = 0
    /\ page_index' = 0
    /\ split_start' = 0
    /\ IF split_text = <<>>
       THEN /\ splitter_pc' = "returned"
            /\ UNCHANGED page_sections
       ELSE IF PageMarkers(split_text) # {}
       THEN /\ page_sections' = PageSections(split_text)
            /\ splitter_pc' = IF PageSections(split_text) = <<>>
                              THEN "returned" ELSE "paging"
       ELSE /\ splitter_pc' = "windowing"
            /\ UNCHANGED page_sections
    /\ UNCHANGED <<orchestrator, combiner, pooling, chunker, builder, factory, split_args, split_text, split_cuts>>

\* faulty variant: a batch is closed only once it holds more pages than the limit
ReachedPageLimitLate(pages, limit) == pages > limit

\* reached_page_limit
ReachedPageLimit(pages, limit) == pages >= limit

\* one iteration of `for page_index, page_section in enumerate(page_sections)`
GroupPage ==
    /\ splitter_pc = "paging"
    /\ page_index < Len(page_sections)
    /\ LET page_section == page_sections[page_index + 1]
           page_chars == TextLen(page_section)
           reached_page_limit == ReachedPageLimit(Len(current_batch), pdf_pages_per_batch)
           reached_char_limit ==
               /\ current_batch # <<>>
               /\ current_chars + page_chars > max_chars_per_batch
           closing == reached_page_limit \/ reached_char_limit
           closed == IF closing
                     THEN Append(batched_texts, JoinSections(current_batch))
                     ELSE batched_texts
           batch == Append(IF closing THEN <<>> ELSE current_batch, page_section)
           is_last_page == page_index = Len(page_sections) - 1
       IN  /\ current_batch' = batch
           /\ current_chars' = (IF closing THEN 0 ELSE current_chars) + page_chars
           /\ batched_texts' = IF is_last_page
                               THEN Append(closed, JoinSections(batch)) ELSE closed
           /\ page_index' = page_index + 1
           /\ splitter_pc' = IF is_last_page THEN "returned" ELSE splitter_pc
    /\ UNCHANGED <<orchestrator, combiner, pooling, chunker, builder, factory, split_args, split_text, max_chars_per_batch,
                   pdf_pages_per_batch, page_sections, split_start, split_cuts>>

\* faulty variant: a break standing exactly at 60% of the window is accepted
PastBatchThresholdInclusive(pos, size) == 10 * pos >= 6 * size

\* `paragraph_break > max_chars_per_batch * 0.6`
PastBatchThreshold(pos, size) == 10 * pos > 6 * size

\* one iteration of `while start < text_length` of the texts without markers
CutBatchWindow ==
    /\ splitter_pc = "windowing"
    /\ split_start < TextLen(split_text)
    /\ LET text_length == TextLen(split_text)
           window_end == IF split_start + max_chars_per_batch < text_length
                         THEN split_start + max_chars_per_batch ELSE text_length
           paragraph_break ==
               RFindBreak(SliceRuns(split_text, split_start, window_end))
           end == IF window_end < text_length
                     /\ PastBatchThreshold(paragraph_break, max_chars_per_batch)
                  THEN split_start + paragraph_break ELSE window_end
           section == StripRuns(SliceRuns(split_text, split_start, end))
       IN  /\ batched_texts' = IF section # <<>> THEN Append(batched_texts, section)
                               ELSE batched_texts
           /\ split_cuts' = Append(split_cuts,
                                   [start |-> split_start, window_end |-> window_end,
                                    paragraph_break |-> paragraph_break, end |-> end,
                                    section |-> section])
           /\ IF end >= text_length
              THEN /\ splitter_pc' = "returned"
                   /\ UNCHANGED split_start
              ELSE /\ split_start' = end
                   /\ UNCHANGED splitter_pc
    /\ UNCHANGED <<orchestrator, combiner, pooling, chunker, builder, factory, split_args, split_text, max_chars_per_batch,
                   pdf_pages_per_batch, page_sections, page_index, current_batch,
                   current_chars>>

NextSplit ==
    \/ EnterSplitter
    \/ GroupPage
    \/ CutBatchWindow

SpecSplit == InitSplit /\ [][NextSplit]_vars

\* ============================================= the two functions, run to end
\* Calls of smart_chunk_text and of split_text_for_incremental_chunking, each
\* followed from its entry to its return.
InitTerminate == InitChunk \/ InitSplit

NextTerminate ==
    \/ NextChunk
    \/ NextSplit

SpecTerminate == InitTerminate /\ [][NextTerminate]_vars

\* ================================================ PostgresTableQueryBuilder
\* A row is a dict: here the sequence of its <<column, value>> pairs, in key
\* order.
Columns(row) == [k \in 1..Len(row) |-> row[k][1]]

HasColumn(row, col) == \E k \in 1..Len(row) : row[k][1] = col

\* row[col]
Field(row, col) == row[CHOOSE k \in 1..Len(row) : row[k][1] = col][2]

\* the tables written to: the four _infer_conflict_column knows, and another
Tables == {"archon_sources", "archon_settings", "archon_projects", "archon_tasks",
           "archon_crawled_pages"}

\* the column of each table that the database keeps unique
KeyColumn(table) ==
    CASE table = "archon_sources" -> "source_id"
      [] table = "archon_settings" -> "key"
      [] OTHER -> "id"

\* fallback_data of the Source Registrar
FallbackRow ==
    << <<"source_id", "src">>, <<"title", "src">>, <<"summary", "new">>,
       <<"total_word_count", "5">>, <<"metadata", "fallback">> >>

\* the rows upserted into a table
RowsFor(table) ==
    (IF table = "archon_sources" THEN {FallbackRow} ELSE {})
        \cup { << <<KeyColumn(table), "k">>, <<"title", "new">> >>,
               << <<KeyColumn(table), "k">>, <<"created_at", "now">> >>,
               << <<KeyColumn(table), "k">> >> }

\* the row the table may hold before the statement, with the same key
StoredBefore(table, row) ==
    << <<KeyColumn(table), Field(row, KeyColumn(table))>>, <<"title", "old">>,
       <<"summary", "old">> >>

\* the data argument of upsert(): a dict, or a list of dicts
DataArgs(table) ==
    {[is_list |-> FALSE, rows |-> <<row>>] : row \in RowsFor(table)}
        \cup {[is_list |-> TRUE, rows |-> <<row>>] : row \in RowsFor(table)}
        \cup {[is_list |-> TRUE, rows |-> <<>>]}

\* the on_conflict argument: left out, or the key column
OnConflictArgs(table) == {"", KeyColumn(table)}

\* client.table(name), the arguments of the upsert() to come and the table
InitBuilder ==
    /\ RunIdle
    /\ ChunkerIdle
    /\ SplitterIdle
    /\ FactoryIdle
    /\ PoolIdle
    /\ CombinerIdle
    /\ \E table \in Tables :
          /\ builder_table = table
          /\ \E data \in DataArgs(table) :
                /\ builder_data = data
                /\ stored_rows \in
                       {<<>>} \cup {<<StoredBefore(table, data.rows[k])>> :
                                       k \in 1..Len(data.rows)}
          /\ builder_on_conflict \in OnConflictArgs(table)
    /\ builder_op = "None"
    /\ built_sql = NoSql
    /\ api_response = <<>>
    /\ builder_pc = "new"

\* upsert(data, on_conflict)
Upsert ==
    /\ builder_pc = "new"
    /\ builder_op' = "UPSERT"
    /\ builder_pc' = "set"
    /\ UNCHANGED <<orchestrator, combiner, pooling, chunker, splitter, factory, builder_table, builder_data,
                   builder_on_conflict, built_sql, stored_rows, api_response>>

\* _infer_conflict_column
InferConflictColumn(table) ==
    CASE table = "archon_sources" -> "source_id"
      [] table = "archon_settings" -> "key"
      [] table = "archon_projects" -> "id"
      [] table = "archon_tasks" -> "id"
      [] OTHER -> ""

\* conflict_target
ConflictTarget(on_conflict, table) ==
    IF on_conflict # "" THEN on_conflict ELSE InferConflictColumn(table)

\* exclude_cols
ExcludeCols(conflict_target) ==
    IF conflict_target # "" THEN {conflict_target, "created_at", "id"}
    ELSE {"id", "created_at"}

\* the UPSERT branch of _build_sql
UpsertSql(table, data, on_conflict) ==
    LET rows == data.rows
        cols == Columns(rows[1])
        conflict_target == ConflictTarget(on_conflict, table)
        update_parts ==
            SelectSeq(cols, LAMBDA k : k \notin ExcludeCols(conflict_target))
    IN  IF rows = <<>>
        THEN [statement |-> "SELECT * FROM tbl WHERE FALSE", cols |-> <<>>,
              conflict_target |-> "", update_parts |-> <<>>, on_conflict |-> "none"]
        ELSE IF conflict_target # "" /\ update_parts # <<>>
        THEN [statement |-> "INSERT", cols |-> cols,
              conflict_target |-> conflict_target, update_parts |-> update_parts,
              on_conflict |-> "DO UPDATE SET"]
        ELSE [statement |-> "INSERT", cols |-> cols, conflict_target |-> "",
              update_parts |-> <<>>, on_conflict |-> "DO NOTHING"]

\* execute() up to `sql, params = self._build_sql()`
BuildSql ==
    /\ builder_pc = "set"
    /\ built_sql' = UpsertSql(builder_table, builder_data, builder_on_conflict)
    /\ builder_pc' = "built"
    /\ UNCHANGED <<orchestrator, combiner, pooling, chunker, splitter, factory, builder_table, builder_op,
                   builder_data, builder_on_conflict, stored_rows, api_response>>

\* the stored rows whose key is the key of row
Conflicting(table, stored, row) ==
    {i \in 1..Len(stored) :
        /\ HasColumn(row, KeyColumn(table))
        /\ Field(stored[i], KeyColumn(table)) = Field(row, KeyColumn(table))}

\* a stored row after SET col = EXCLUDED.col for the columns of update_parts
Updated(old, row, update_parts) ==
    LET changed == [k \in 1..Len(old) |->
                       IF \E j \in 1..Len(update_parts) : update_parts[j] = old[k][1]
                       THEN <<old[k][1], Field(row, old[k][1])>> ELSE old[k]]
        added == SelectSeq(update_parts, LAMBDA c : ~HasColumn(old, c))
    IN  changed \o [j \in 1..Len(added) |-> <<added[j], Field(row, added[j])>>]

\* what the database does with the statement for one row: the rows of the
\* table afterwards and the rows RETURNING * gives back
RunStatement(table, sql, stored, row) ==
    LET hits == Conflicting(table, stored, row)
        hit == CHOOSE i \in hits : TRUE
    IN  IF hits = {}
        THEN [stored |-> Append(stored, row), returned |-> <<row>>]
        ELSE IF sql.on_conflict = "DO UPDATE SET"
        THEN [stored |-> [stored EXCEPT ![hit] = Updated(@, row, sql.update_parts)],
              returned |-> <<Updated(stored[hit], row, sql.update_parts)>>]
        ELSE [stored |-> stored, returned |-> <<>>]

\* cur.execute(sql, params), conn.commit() and cur.fetchall(); or the
\* database raises, and execute() rolls back and raises
Execute ==
    /\ builder_pc = "built"
    /\ \E db_ok \in BOOLEAN :
          IF ~db_ok
          THEN /\ builder_pc' = "raised"
               /\ UNCHANGED <<stored_rows, api_response>>
          ELSE /\ builder_pc' = "executed"
               /\ IF built_sql.statement = "INSERT"
                  THEN LET done == RunStatement(builder_table, built_sql, stored_rows,
                                                builder_data.rows[1])
                       IN  /\ stored_rows' = done.stored
                           /\ api_response' = done.returned
                  ELSE /\ api_response' = <<>>
                       /\ UNCHANGED stored_rows
    /\ UNCHANGED <<orchestrator, combiner, pooling, chunker, splitter, factory, builder_table, builder_op,
                   builder_data, builder_on_conflict, built_sql>>

NextBuilder ==
    \/ Upsert
    \/ BuildSql
    \/ Execute

SpecBuilder == InitBuilder /\ [][NextBuilder]_vars

\* ================================================================ db.factory
\* the values DB_PROVIDER takes
EnvProviders == {"unset", "Supabase", " postgres ", "mysql", ""}

\* the credential variables the builders read
CredentialVars == {"SUPABASE_URL", "SUPABASE_SERVICE_KEY", "POSTGRES_DSN"}

\* os.getenv("DB_PROVIDER", "supabase").lower().strip()
Provider(value) ==
    CASE value = "unset" -> "supabase"
      [] value = "Supabase" -> "supabase"
      [] value = " postgres " -> "postgres"
      [] OTHER -> value

\* the module as imported: `_client = None`, in some environment
InitFactory ==
    /\ RunIdle
    /\ ChunkerIdle
    /\ SplitterIdle
    /\ BuilderIdle
    /\ PoolIdle
    /\ CombinerIdle
    /\ factory_client = 0
    /\ env_provider \in EnvProviders
    /\ env_set \in SUBSET CredentialVars
    /\ clients_built = 0
    /\ factory_calls = <<>>
    /\ factory_pc = "loaded"

\* what _build_supabase_client does: "ValueError" when a credential is
\* missing, else the client, unless create_client raises
BuildSupabaseClient(set, connect_ok) ==
    IF ~({"SUPABASE_URL", "SUPABASE_SERVICE_KEY"} \subseteq set) THEN "ValueError"
    ELSE IF connect_ok THEN "client" ELSE "Exception"

\* what _build_postgres_client does: "ValueError" without POSTGRES_DSN, else
\* the client, unless PostgresDatabaseClient raises RuntimeError
BuildPostgresClient(set, connect_ok) ==
    IF "POSTGRES_DSN" \notin set THEN "ValueError"
    ELSE IF connect_ok THEN "client" ELSE "RuntimeError"

\* the branches of get_db_client on the provider
BuildClient(provider, set, connect_ok) ==
    IF provider = "supabase" THEN BuildSupabaseClient(set, connect_ok)
    ELSE IF provider = "postgres" THEN BuildPostgresClient(set, connect_ok)
    ELSE "ValueError"

\* the environment names a supported provider and holds its credentials
ConfigValid(value, set) == BuildClient(Provider(value), set, TRUE) = "client"

\* a call of one of the module's functions, as recorded: what was cached and
\* whether the environment was valid when it was made, and its outcome
FactoryCall(op, cached, valid, out, raised) ==
    [op |-> op, cached |-> cached, valid |-> valid, out |-> out, raised |-> raised]

\* faulty variant: the client is built again although one is cached
IsCachedNever(client) == FALSE

\* `if _client is not None`
IsCached(client) == client # 0

\* the functions that return the client: get_db_client, and
\* client_manager.get_supabase_client, which is `return get_db_client()`
EntryPoints == {"get_db_client", "get_supabase_client"}

\* get_db_client(), entered through the function named op
GetDbClient(op) ==
    /\ factory_pc = "loaded"
    /\ Len(factory_calls) < MaxCalls
    /\ LET provider == Provider(env_provider)
           valid == ConfigValid(env_provider, env_set)
       IN  IF IsCached(factory_client)
           THEN /\ factory_calls' =
                       Append(factory_calls,
                              FactoryCall(op, factory_client, valid,
                                          factory_client, "none"))
                /\ UNCHANGED <<factory_client, clients_built>>
           ELSE \E connect_ok \in BOOLEAN :
                   LET built == BuildClient(provider, env_set, connect_ok)
                       instance == clients_built + 1
                   IN  /\ factory_calls' =
                              Append(factory_calls,
                                     FactoryCall(op, factory_client, valid,
                                                 IF built = "client" THEN instance ELSE 0,
                                                 IF built = "client" THEN "none" ELSE built))
                       \* a builder that raises leaves `_client` unassigned
                       /\ factory_client' =
                              IF built = "client" THEN instance ELSE factory_client
                       /\ clients_built' =
                              IF built = "client" THEN instance ELSE clients_built
    /\ UNCHANGED <<orchestrator, combiner, pooling, chunker, splitter, builder, env_provider, env_set,
                   factory_pc>>

\* reset_db_client()
ResetDbClient ==
    /\ factory_pc = "loaded"
    /\ Len(factory_calls) < MaxCalls
    /\ factory_client' = 0
    /\ factory_calls' =
           Append(factory_calls,
                  FactoryCall("reset_db_client", factory_client,
                              ConfigValid(env_provider, env_set), 0, "none"))
    /\ UNCHANGED <<orchestrator, combiner, pooling, chunker, splitter, builder, env_provider, env_set,
                   clients_built, factory_pc>>

\* the environment is changed between two calls
SetEnv ==
    /\ factory_pc = "loaded"
    /\ Len(factory_calls) < MaxCalls
    /\ \E value \in EnvProviders, set \in SUBSET CredentialVars :
          /\ <<value, set>> # <<env_provider, env_set>>
          /\ env_provider' = value
          /\ env_set' = set
    /\ UNCHANGED <<orchestrator, combiner, pooling, chunker, splitter, builder, factory_client,
                   clients_built, factory_calls, factory_pc>>

NextFactory ==
    \/ \E op \in EntryPoints : GetDbClient(op)
    \/ ResetDbClient
    \/ SetEnv

SpecFactory == InitFactory /\ [][NextFactory]_vars

\* ====================================== the connection pool and execute()
\* Threads call execute() on query builders made by one PostgresDatabaseClient:
\* PostgresTableQueryBuilder (with an operation set or not) and
\* PostgresRpcQueryBuilder.  Each call is followed statement by statement, so
\* that the calls of different threads interleave.
Threads == 1..MaxThreads

\* the builders execute() is called on: <<class, self._op>>
Builders == {<<"table", "UPSERT">>, <<"table", "None">>, <<"rpc", "rpc">>}

\* where the database may raise inside the try block
FailurePoints == {"none", "cursor", "execute", "commit", "fetchall"}

\* a thread that has not called execute()
NoExecute ==
    [builder |-> "none", op |-> "None", pc |-> "idle", conn |-> 0,
     commits |-> 0, rollbacks |-> 0, puts |-> 0, error |-> "none"]

InitPool ==
    /\ RunIdle
    /\ ChunkerIdle
    /\ SplitterIdle
    /\ BuilderIdle
    /\ FactoryIdle
    /\ CombinerIdle
    /\ pool_maxconn \in 1..MaxConn
    /\ pool_used = {}
    /\ executes = [t \in Threads |-> NoExecute]

\* a thread enters execute() of a builder
CallExecute(t) ==
    /\ executes[t].pc \in {"idle", "returned", "raised"}
    /\ \E b \in Builders :
          executes' = [executes EXCEPT ![t] =
                          [NoExecute EXCEPT !.builder = b[1], !.op = b[2],
                                            !.pc = "getconn"]]
    /\ UNCHANGED <<orchestrator, combiner, chunker, splitter, builder, factory,
                   pool_maxconn, pool_used>>

\* `conn = self._pool.getconn()`, before the try block: the pool hands out a
\* connection that is not checked out, or raises PoolError when max_conn of
\* them are
GetConn(t) ==
    /\ executes[t].pc = "getconn"
    /\ IF Cardinality(pool_used) >= pool_maxconn
       THEN /\ executes' = [executes EXCEPT ![t].pc = "raised",
                                            ![t].error = "PoolError"]
            /\ UNCHANGED pool_used
       ELSE \E conn \in (1..pool_maxconn) \ pool_used :
               /\ pool_used' = pool_used \cup {conn}
               /\ executes' = [executes EXCEPT ![t].conn = conn, ![t].pc = "try"]
    /\ UNCHANGED <<orchestrator, combiner, chunker, splitter, builder, factory, pool_maxconn>>

\* `raise ValueError(...)` at the end of _build_sql: no operation was set.
\* PostgresRpcQueryBuilder builds its statement in place and has no such case.
BuildFails(call) == call.builder = "table" /\ call.op = "None"

\* the try block: the cursor, _build_sql, cur.execute, conn.commit and
\* cur.fetchall, up to the return or to the first exception
TryBody(t) ==
    /\ executes[t].pc = "try"
    /\ \E failure \in FailurePoints :
          LET call == executes[t]
              exc == IF failure = "cursor" THEN "DatabaseError"
                     ELSE IF BuildFails(call) THEN "ValueError"
                     ELSE IF failure = "none" THEN "none"
                     ELSE "DatabaseError"
              committed == ~BuildFails(call) /\ failure \in {"none", "fetchall"}
          IN  executes' = [executes EXCEPT
                              ![t].commits = IF committed THEN 1 ELSE 0,
                              ![t].error = exc,
                              ![t].pc = IF exc = "none" THEN "finally"
                                        ELSE "except"]
    /\ UNCHANGED <<orchestrator, combiner, chunker, splitter, builder, factory,
                   pool_maxconn, pool_used>>

\* `except Exception: conn.rollback(); raise`: when rollback itself raises,
\* its exception is the one that leaves the block
Except(t) ==
    /\ executes[t].pc = "except"
    /\ \E rollback_ok \in BOOLEAN :
          executes' = [executes EXCEPT
                          ![t].rollbacks = @ + 1,
                          ![t].error = IF rollback_ok THEN @ ELSE "RollbackError",
                          ![t].pc = "finally"]
    /\ UNCHANGED <<orchestrator, combiner, chunker, splitter, builder, factory,
                   pool_maxconn, pool_used>>

\* faulty variant: the connection stays checked out
ReleasedNever(used, conn) == used

\* what putconn(conn) leaves checked out
Released(used, conn) == used \ {conn}

\* `finally: self._pool.putconn(conn)`, then the return or the exception
Finally(t) ==
    /\ executes[t].pc = "finally"
    /\ pool_used' = Released(pool_used, executes[t].conn)
    /\ executes' = [executes EXCEPT
                       ![t].puts = @ + 1,
                       ![t].pc = IF executes[t].error = "none" THEN "returned"
                                 ELSE "raised"]
    /\ UNCHANGED <<orchestrator, combiner, chunker, splitter, builder, factory, pool_maxconn>>

NextPool ==
    \E t \in Threads :
        \/ CallExecute(t)
        \/ GetConn(t)
        \/ TryBody(t)
        \/ Except(t)
        \/ Finally(t)

SpecPool == InitPool /\ [][NextPool]_vars

\* ================================= _create_source_records: the summary input
\* The aggregation of the content samples, for the samples of several
\* source_ids.  A sample is markdown_content[:5000] of a document whose
\* trimmed content is not empty.
MarkdownPool ==
    { <<"w">>, <<LongWord>>, <<LongWord, "w">>, <<LongWord, WS, "w", WS, "w">> }

SampleSourceIds == {"a.com", "b.com"}

\* the (all_metadatas, all_contents) explored: <<source_id, sample>> pairs
SampleLists ==
    UNION {[1..n -> SampleSourceIds \X {Take(md, SummarySampleChars) : md \in MarkdownPool}] :
               n \in 1..MaxSamples}

InitCombine ==
    /\ RunIdle
    /\ ChunkerIdle
    /\ SplitterIdle
    /\ BuilderIdle
    /\ FactoryIdle
    /\ PoolIdle
    /\ \E samples \in SampleLists :
          /\ arg_metadatas = [i \in 1..Len(samples) |->
                                 [source_id |-> samples[i][1],
                                  word_count |-> WordCount(samples[i][2])]]
          /\ arg_contents = [i \in 1..Len(samples) |-> samples[i][2]]
    /\ combined_contents = <<>>
    /\ combiner_pc = "called"

\* unique_source_ids
UniqueSourceIds(metadatas) == {metadatas[i].source_id : i \in 1..Len(metadatas)}

\* the source_ids whose combined_content was built
Combined == {combined_contents[i][1] : i \in 1..Len(combined_contents)}

\* one iteration of `for source_id in unique_source_ids`, up to the call of
\* extract_source_summary(source_id, combined_content)
CombineSamples ==
    /\ combiner_pc = "called"
    /\ \E source_id \in UniqueSourceIds(arg_metadatas) \ Combined :
          /\ combined_contents' =
                 DictSet(combined_contents, source_id,
                         CombinedContent(SourceIdContents(arg_metadatas, arg_contents,
                                                          source_id)))
          /\ combiner_pc' =
                 IF UniqueSourceIds(arg_metadatas) \subseteq Combined \cup {source_id}
                 THEN "returned" ELSE "called"
    /\ UNCHANGED <<orchestrator, chunker, splitter, builder, factory, pooling,
                   arg_metadatas, arg_contents>>

NextCombine == CombineSamples

SpecCombine == InitCombine /\ [][NextCombine]_vars

\* ================================================================ properties
\* positions of the log holding one of the given calls
At(ops) == {i \in 1..Len(log) : log[i].op \in ops}

SourceWrites == {"update_source_info", "fallback_upsert"}
SourceOps == SourceWrites \cup {"select_source"}
PageWrites == {"store_pages", "store_llms_full_sections"}
ChunkWrites == {"add_documents_to_supabase"}

\* the run took the standard branch / the multi-section branch
StandardMode == At({"store_pages"}) # {}
MultiSectionMode == At({"store_llms_full_sections"}) # {}

\* the positions of crawl_results holding a document whose url and markdown
\* are both non-empty after trimming
ValidIndexes ==
    {i \in 1..Len(crawl_results) :
        /\ Strip(OrEmpty(crawl_results[i].url)) # <<>>
        /\ Strip(OrEmpty(crawl_results[i].markdown)) # <<>>}

ValidUrls == {Strip(OrEmpty(crawl_results[i].url)) : i \in ValidIndexes}

SeqSum(f) ==
    LET RECURSIVE Go(_)
        Go(i) == IF i > Len(f) THEN 0 ELSE f[i] + Go(i + 1)
    IN  Go(1)

\* the chunks the chunker produces for the valid documents of the run
TotalChunks ==
    SeqSum([k \in 1..Len(prepared_documents) |->
               SeqSum(prepared_documents[k].markdown.batches)])

\* the sum of the chunks_stored values the bulk writer reported
ReportedStored ==
    SeqSum([i \in 1..Len(bulk_calls) |->
               IF bulk_calls[i].ok THEN bulk_calls[i].stored ELSE 0])

BatchSizes == [i \in 1..Len(bulk_calls) |-> Len(bulk_calls[i].contents)]

CeilDiv(n, d) == (n + d - 1) \div d

\* C1: in every run, every Source upsert and the Source read-back come before
\* the Page write and have succeeded when it starts, and the Page write comes
\* before, and has succeeded at, every bulk chunk write, in standard and in
\* multi-section mode.
C1_SourcesThenPagesThenChunks ==
    /\ \A p \in At(PageWrites) :
          /\ \A s \in At(SourceOps) : s < p
          /\ \E s \in At(SourceWrites) : s < p /\ log[s].ok
          /\ \E s \in At({"select_source"}) : s < p /\ log[s].ok
    /\ \A c \in At(ChunkWrites) :
          /\ \A p \in At(PageWrites) : p < c
          /\ \E p \in At(PageWrites) : p < c /\ log[p].ok
    /\ Cardinality(At(PageWrites)) <= 1

C1_Witness ==
    /\ pc = "Done"
    /\ StandardMode
    /\ Len(bulk_calls) >= 2
    /\ \E s \in At({"fallback_upsert"}) : log[s].ok

\* C2: when the read-back of a source_id returns no row the run raises and
\* ends Failed, and neither a Page write nor a bulk chunk write is attempted.
C2_VerificationFailureStopsRun ==
    (\E s \in At({"select_source"}) : ~log[s].ok) =>
        /\ pc = "Failed"
        /\ error = "Exception"
        /\ ~result.returned
        /\ At(PageWrites) = {}
        /\ At(ChunkWrites) = {}
        /\ bulk_calls = <<>>

C2_Witness ==
    /\ pc = "Failed"
    /\ \E s \in At({"select_source"}) : ~log[s].ok
    /\ Len(prepared_documents) = 2

\* C3: a completed standard-mode run that produces N chunks with flush
\* threshold F makes exactly ceil(N/F) bulk-write calls, each but the last of
\* exactly F chunks and the last of the remaining N - F*(ceil(N/F)-1) chunks;
\* N = 60 and F = 25 give the sizes 25, 25, 10.
C3_FlushBatching ==
    (pc = "Done" /\ StandardMode) =>
        LET N == TotalChunks
            F == flush_chunk_size
            calls == CeilDiv(N, F)
        IN  /\ Len(bulk_calls) = calls
            /\ \A i \in 1..Len(bulk_calls) :
                  Len(bulk_calls[i].contents) =
                      IF i < calls THEN F ELSE N - F * (calls - 1)
            /\ (N = 60 /\ F = 25) => BatchSizes = <<25, 25, 10>>

C3_Witness ==
    /\ pc = "Done"
    /\ StandardMode
    /\ TotalChunks = 60
    /\ flush_chunk_size = 25
    /\ BatchSizes = <<25, 25, 10>>

\* C4: in standard mode delete_existing_records is true on the first
\* bulk-write call and false on every later one, and deletion_urls is the set
\* of the run's valid document urls on the first call and absent afterwards.
C4_DeleteOnlyOnFirstFlush ==
    StandardMode =>
        \A i \in 1..Len(bulk_calls) :
           /\ bulk_calls[i].delete_existing_records = Some(i = 1)
           /\ bulk_calls[i].deletion_urls.present = (i = 1)
           /\ i = 1 =>
                 /\ {bulk_calls[i].deletion_urls.val[k] :
                        k \in 1..Len(bulk_calls[i].deletion_urls.val)} = ValidUrls
                 /\ Len(bulk_calls[i].deletion_urls.val) = Cardinality(ValidUrls)
           /\ i > 1 => bulk_calls[i].deletion_urls = None

C4_Witness ==
    /\ pc = "Done"
    /\ Len(bulk_calls) = 3
    /\ Cardinality(ValidUrls) = 2
    /\ bulk_calls[3].delete_existing_records = Some(FALSE)

\* C5 as claimed: when the cancellation check fires after k successful
\* flushes the run returns a result whose chunks_stored is the sum of the
\* counts those flushes stored, and a "cancelled" update at 99 is emitted.
C5_CancelledRunReturnsResult ==
    pc = "Cancelled" =>
        /\ result.returned
        /\ result.chunks_stored = ReportedStored
        /\ \E i \in 1..Len(progress) :
              progress[i].stage = "cancelled" /\ progress[i].percent = 99

\* C5 as amended: when the cancellation check fires after k successful
\* flushes the run returns no result but re-raises the cancellation; its
\* chunks_stored accumulator then holds the sum of the counts reported by
\* exactly those k flushes, and when a progress callback was given exactly one
\* update, the last, has stage "cancelled" and percent 99.
C5_CancelledRunKeepsStoredCount ==
    pc = "Cancelled" =>
        /\ ~result.returned
        /\ error = "CancelledError"
        /\ \A i \in 1..Len(bulk_calls) : bulk_calls[i].ok
        /\ chunks_stored = ReportedStored
        /\ progress_callback =>
              /\ progress # <<>>
              /\ progress[Len(progress)].stage = "cancelled"
              /\ progress[Len(progress)].percent = 99
              /\ Cardinality({i \in 1..Len(progress) :
                                 progress[i].stage = "cancelled"}) = 1
        /\ ~progress_callback => progress = <<>>

C5_Witness ==
    /\ pc = "Cancelled"
    /\ Len(bulk_calls) = 2
    /\ chunks_stored = 49
    /\ progress # <<>>

\* C6: once a cancellation check raises, no Source write, Page write or bulk
\* chunk write follows in the run: the pending chunks are never written and
\* the earlier flushes are neither deleted nor rewritten.
C6_NoWriteAfterCancellation ==
    /\ \A i \in At({"cancellation_check"}) :
          ~log[i].ok =>
             /\ \A j \in At(SourceWrites \cup PageWrites \cup ChunkWrites) : j < i
             /\ pc = "Cancelled"
    /\ pc = "Cancelled" =>
          /\ \A k \in 1..Len(pending_contents) :
                \A c \in 1..Len(bulk_calls) :
                   \A m \in 1..Len(bulk_calls[c].contents) :
                      bulk_calls[c].contents[m] # pending_contents[k]
          /\ Len(bulk_calls) = Cardinality(At(ChunkWrites))

C6_Witness ==
    /\ pc = "Cancelled"
    /\ Len(pending_contents) = 5
    /\ Len(bulk_calls) = 1
    /\ bulk_calls[1].stored = 25

\* the chunk numbers the bulk writer received for one url, in call order
ChunkNumbersOf(url) ==
    LET RECURSIVE Call(_, _)
        Call(c, k) ==
            IF c > Len(bulk_calls) THEN <<>>
            ELSE IF k > Len(bulk_calls[c].urls) THEN Call(c + 1, 1)
            ELSE (IF bulk_calls[c].urls[k] = url
                  THEN <<bulk_calls[c].chunk_numbers[k]>> ELSE <<>>)
                 \o Call(c, k + 1)
    IN  Call(1, 1)

WrittenUrls ==
    UNION {{bulk_calls[c].urls[k] : k \in 1..Len(bulk_calls[c].urls)} :
              c \in 1..Len(bulk_calls)}

\* C7: over a completed run the chunk_index values passed to the bulk writer
\* for each url are exactly 0, 1, ..., n-1 in order, none repeated, also when
\* two documents of the list share a url.
C7_ChunkIndexContiguousPerUrl ==
    (pc = "Done" /\ StandardMode) =>
        \A u \in WrittenUrls :
           LET numbers == ChunkNumbersOf(u)
           IN  numbers = [k \in 1..Len(numbers) |-> k - 1]

\* the Source upserts issued for one source_id, in order
SourceCallsOf(source_id) ==
    SelectSeq(source_calls, LAMBDA c : c.data.source_id = source_id)

\* C8: for each source_id, when update_source_info fails exactly one fallback
\* upsert follows, carrying source_id, title = source_id, the same summary and
\* total_word_count and the fallback mark; when it succeeds the run goes on to
\* verification, and when it fails too the run raises a fatal error with no
\* Page or chunk write and no further attempt.
C8_SingleFallbackUpsert ==
    \A source_id \in {source_calls[i].data.source_id : i \in 1..Len(source_calls)} :
       LET calls == SourceCallsOf(source_id)
           full == calls[1]
       IN  /\ full.data.call = "update_source_info"
           /\ full.ok => Len(calls) = 1
           /\ ~full.ok =>
                 /\ Len(calls) = 2
                 /\ calls[2].data.call = "fallback_upsert"
                 /\ calls[2].data.source_id = source_id
                 /\ calls[2].data.title = source_id
                 /\ calls[2].data.summary = full.data.summary
                 /\ calls[2].data.total_word_count = full.data.total_word_count
                 /\ calls[2].data.fallback_creation
                 /\ calls[2].ok => \/ pc = "VerifyingSources"
                                   \/ At({"select_source"}) # {}
                 /\ ~calls[2].ok =>
                       /\ pc = "Failed"
                       /\ error = "RuntimeError"
                       /\ ~result.returned
                       /\ At(PageWrites \cup ChunkWrites \cup {"select_source"}) = {}
                       /\ log[Len(log)] = Event("fallback_upsert", FALSE)

C8_Witness ==
    /\ pc = "VerifyingSources"
    /\ Len(source_calls) = 2
    /\ ~source_calls[1].ok
    /\ source_calls[2].ok
    /\ source_calls[2].data.total_word_count = 5

\* C9: when a bulk-write call raises, the exception reaches the caller, no
\* further bulk-write call is made, and nothing is deleted or written to
\* compensate for the chunks of the earlier flushes.
C9_BulkWriteFailurePropagates ==
    \A i \in 1..Len(bulk_calls) :
       ~bulk_calls[i].ok =>
          /\ i = Len(bulk_calls)
          /\ pc = "Failed"
          /\ error = "StorageError"
          /\ ~result.returned
          /\ log[Len(log)] = Event("add_documents_to_supabase", FALSE)
          /\ Cardinality(At(ChunkWrites)) = Len(bulk_calls)

C9_Witness ==
    /\ pc = "Failed"
    /\ Len(bulk_calls) = 3
    /\ bulk_calls[1].ok /\ bulk_calls[2].ok /\ ~bulk_calls[3].ok
    /\ chunks_stored = bulk_calls[1].stored + bulk_calls[2].stored

\* the documents of crawl_results the Preparing loop has gone through
Seen ==
    IF pc = "Preparing" \/ (pc = "Cancelled" /\ At(SourceOps) = {})
    THEN doc_index - 1 ELSE Len(crawl_results)

\* the valid documents among them, in input order
RECURSIVE ValidPrefix(_)
ValidPrefix(n) ==
    IF n = 0 THEN <<>>
    ELSE ValidPrefix(n - 1) \o (IF n \in ValidIndexes THEN <<n>> ELSE <<>>)

\* C10: a document takes part in the run exactly when its url and its
\* markdown are non-empty after trimming; another document is skipped without
\* an error and adds nothing to the word count, url_to_full_document, the
\* pages or the chunks; when all are skipped the result is all zero with the
\* given source_id and no Source, Page or chunk write is made.
C10_InvalidDocumentsSkipped ==
    LET valid == ValidPrefix(Seen)
        urls == {Strip(OrEmpty(crawl_results[valid[k]].url)) : k \in 1..Len(valid)}
    IN  /\ Len(prepared_documents) = Len(valid)
        /\ processed_docs = Len(valid)
        /\ \A k \in 1..Len(valid) :
              /\ prepared_documents[k].url = Strip(OrEmpty(crawl_results[valid[k]].url))
              /\ prepared_documents[k].markdown.text =
                     Strip(OrEmpty(crawl_results[valid[k]].markdown))
        /\ source_word_counts[SourceId] =
               SeqSum([k \in 1..Len(valid) |->
                          WordCount(Strip(OrEmpty(crawl_results[valid[k]].markdown)))])
        /\ (pc = "Preparing" \/ StandardMode) =>
               {url_to_full_document[k][1] : k \in 1..Len(url_to_full_document)} = urls
        /\ (\E p \in At({"store_pages"}) : log[p].ok) =>
               {url_to_page_id[k][1] : k \in 1..Len(url_to_page_id)} = urls
        /\ StandardMode =>
               /\ WrittenUrls \subseteq urls
               /\ pc = "Done" => chunk_count = TotalChunks
        /\ error \in {"RuntimeError", "Exception", "PageStorageError", "StorageError"}
               => valid # <<>>
        /\ (pc # "Preparing" /\ pc # "Cancelled" /\ ValidIndexes = {}) =>
               /\ pc = "Done"
               /\ result = [returned |-> TRUE, chunk_count |-> 0, chunks_stored |-> 0,
                            total_word_count |-> 0, url_to_full_document |-> <<>>,
                            source_id |-> SourceId]
               /\ At(SourceOps \cup PageWrites \cup ChunkWrites) = {}
               /\ source_calls = <<>> /\ bulk_calls = <<>>

C10_Witness ==
    /\ pc = "Done"
    /\ StandardMode
    /\ Len(crawl_results) = 2
    /\ ValidIndexes = {2}
    /\ WrittenUrls = ValidUrls
    /\ result.total_word_count = 3

\* the sequences of a sequence, joined in order
RECURSIVE Flatten(_)
Flatten(seqs) ==
    IF seqs = <<>> THEN <<>> ELSE Head(seqs) \o Flatten(Tail(seqs))

\* the chunks the bulk writer was handed, over all its calls, in order
WrittenContents == Flatten([i \in 1..Len(bulk_calls) |-> bulk_calls[i].contents])

\* the flush threshold of the run: the one loaded in standard mode, the
\* default in multi-section mode, where no setting is given
FlushThreshold == IF MultiSectionMode THEN DefaultFlushChunks ELSE flush_chunk_size

\* C11: at every point of a run, in standard and in multi-section mode, the
\* pending buffer never holds more chunks than the flush threshold and no
\* bulk-write call receives more chunks than the flush threshold.
C11_BufferWithinFlushThreshold ==
    /\ Len(pending_contents) <= FlushThreshold
    /\ \A i \in 1..Len(bulk_calls) : Len(bulk_calls[i].contents) <= FlushThreshold

\* the chunks of the d-th prepared document, in order, given how many chunks
\* each of its parts (text batches or sections) makes
ChunksOfDocument(d, counts) ==
    [k \in 1..ChunkTotal(counts, 1) |->
        <<d, ChunkAt(counts, 1, k)[1], ChunkAt(counts, 1, k)[2]>>]

\* the chunks of every prepared document, in input order
ExpectedContents ==
    Flatten([d \in 1..Len(prepared_documents) |->
                ChunksOfDocument(d, IF MultiSectionMode
                                    THEN prepared_documents[d].markdown.sections
                                    ELSE prepared_documents[d].markdown.batches)])

\* C12: in a completed run every valid document (standard mode) and every
\* section of every valid document (multi-section mode) is chunked and its
\* chunks are handed to the bulk writer, in input order; no valid document
\* counted in total_word_count is left without its chunks written.
C12_EveryValidDocumentWritten ==
    (pc = "Done" /\ prepared_documents # <<>>) =>
        /\ WrittenContents = ExpectedContents
        /\ result.total_word_count =
               SeqSum([d \in 1..Len(prepared_documents) |->
                          WordCount(prepared_documents[d].markdown.text)])

PrepareChecks ==
    [d \in 1..Len(crawl_results) |-> [at |-> "document", doc |-> d, chunk |-> 0]]

\* the checks the standard Streaming loop makes for the d-th valid document,
\* which makes n chunks: one at the top, one before each tenth chunk
StreamChecksOf(d, n) ==
    <<[at |-> "chunking-document", doc |-> d, chunk |-> 0]>>
        \o [j \in 1..CeilDiv(n, ChunkCheckEvery) |->
                [at |-> "chunk", doc |-> d, chunk |-> (j - 1) * ChunkCheckEvery]]

\* the checks the standard Streaming loop makes when it runs to its end
StreamChecks ==
    LET valid == ValidPrefix(Len(crawl_results))
    IN  Flatten([d \in 1..Len(valid) |->
                    StreamChecksOf(d, SeqSum(Content(crawl_results[valid[d]]).batches))])

IsPrefix(s, t) == Len(s) <= Len(t) /\ s = SubSeq(t, 1, Len(s))

NonBlank(s) == SelectSeq(s, LAMBDA c : c \notin Whitespace)

\* the chunks the combining loop has yet to take
ChunksAfter(n) == SubSeq(chunks, n + 1, Len(chunks))

\* C14: for any text and any chunk_size >= 1 the chunks smart_chunk_text
\* returns, joined in order, hold every non-whitespace character of the text
\* exactly once and in the original order: only whitespace is removed (at the
\* cut points), nothing is reordered, duplicated or dropped.  The same holds
\* of the part of the text already cut while the call is running.
C14_ChunksCoverText ==
    /\ chunker_pc = "cutting" =>
           NonBlank(Flatten(chunks)) = NonBlank(Slice(text, 0, start))
    /\ chunker_pc = "combining" =>
           NonBlank(Flatten(combined_chunks) \o current
                        \o Flatten(ChunksAfter(combine_i + 1))) = NonBlank(text)
    /\ chunker_pc = "returned" => NonBlank(Flatten(chunks)) = NonBlank(text)

C14_Witness ==
    /\ chunker_pc = "returned"
    /\ chunk_size >= 1
    /\ Len(chunks) >= 2
    /\ \E k \in 1..Len(cuts) : cuts[k].rule = "paragraph"
    /\ \E k \in 1..Len(cuts) : cuts[k].rule = "hard"
    /\ Len(NonBlank(text)) < Len(text)

\* C15: whenever smart_chunk_text returns more than one chunk, every chunk
\* but the last is at least 200 characters long, for any text and any
\* chunk_size >= 1.
C15_NonLastChunksAtLeastMinimum ==
    (chunker_pc = "returned" /\ Len(chunks) > 1) =>
        \A k \in 1..(Len(chunks) - 1) : Len(chunks[k]) >= MinChunkChars

C15_Witness ==
    /\ chunker_pc = "returned"
    /\ chunk_size < MinChunkChars
    /\ Len(chunks) > 1
    /\ Len(cuts) > Len(chunks)

\* C16: smart_chunk_text returns the empty list, without raising, for the
\* empty string and for every whitespace-only text, also one longer than
\* chunk_size; and no chunk it returns (or holds while running) is empty or
\* whitespace-only.  While running, each loop is at a position it can step
\* from.
C16_BlankTextGivesNoChunk ==
    /\ (chunker_pc = "returned" /\ NonBlank(text) = <<>>) => chunks = <<>>
    /\ chunker_pc = "cutting" => start < Len(text)
    /\ chunker_pc = "combining" => combine_i < Len(chunks)
    /\ \A k \in 1..Len(chunks) : NonBlank(chunks[k]) # <<>>
    /\ \A k \in 1..Len(combined_chunks) : NonBlank(combined_chunks[k]) # <<>>

C16_Witness ==
    /\ chunker_pc = "returned"
    /\ NonBlank(text) = <<>>
    /\ Len(text) > chunk_size
    /\ Len(cuts) > 1
    /\ chunks = <<>>

\* the call of C17: "x" * 1600 + "```code```" + "y" * 3000, chunk_size 5000
FencedCall == text = FencedText /\ chunk_size = DefaultChunkSize

\* C17, as stated: for the text of 1600 "x", then "```code```", then 3000
\* "y", with chunk_size 5000, the first break is made before the code fence,
\* at the fence's opening marker (1600), so the first chunk holds no part of
\* the fence.
C17_FirstBreakBeforeFence ==
    (FencedCall /\ chunker_pc = "returned") =>
        /\ cuts[1].end = 1600
        /\ RFind(chunks[1], <<Backquote>>) = -1

\* C17, amended: for that text and chunk_size 5000 no break is made: the text
\* (4610 characters) is shorter than chunk_size, the first window takes all
\* that is left, and the one chunk returned is the whole text, fence included.
C17_FencedTextReturnedWhole ==
    (FencedCall /\ chunker_pc = "returned") =>
        /\ cuts = <<[start |-> 0, end |-> Len(text), rule |-> "rest"]>>
        /\ chunks = <<text>>

C17_Witness ==
    /\ FencedCall
    /\ chunker_pc = "returned"
    /\ Len(text) = 4610
    /\ RFind(chunks[1], Fence) = 1607

\* `at or beyond 30%` of the window
AtThreshold(pos, size) == 10 * pos >= 3 * size

\* the cut of a non-final window by the first rule, in the order code fence,
\* blank-line break, sentence break, hard cut, whose condition holds
FirstRuleCut(window, from, size) ==
    LET code_block_pos == RFind(window, Fence)
        last_break == RFind(window, ParagraphBreak)
        last_period == RFind(window, SentenceBreak)
    IN  IF code_block_pos # -1 /\ AtThreshold(code_block_pos, size)
        THEN from + code_block_pos
        ELSE IF last_break # -1 /\ AtThreshold(last_break, size)
        THEN from + last_break
        ELSE IF last_period # -1 /\ AtThreshold(last_period, size)
        THEN from + last_period + 1
        ELSE from + size

\* C18: for every non-final window the cut is the one of the first rule, in
\* the order code fence, blank-line break, sentence break, hard cut, whose
\* condition holds in the window; in particular a window without a
\* qualifying fence whose last blank-line break lies before 30% and which has
\* a sentence break at or beyond 30% is cut just after that period.
C18_CutByFirstRuleThatHolds ==
    \A k \in 1..Len(cuts) :
        cuts[k].rule # "rest" =>
            cuts[k].end =
                FirstRuleCut(Slice(text, cuts[k].start, cuts[k].start + chunk_size),
                             cuts[k].start, chunk_size)

\* C19: every chunk smart_chunk_text(text, chunk_size) returns is at most
\* chunk_size long, for any text and any chunk_size >= 200, also after the
\* chunks shorter than 200 characters were joined to their successor.
C19_ChunksWithinChunkSize ==
    (chunker_pc = "returned" /\ chunk_size >= MinChunkChars) =>
        \A k \in 1..Len(chunks) : Len(chunks[k]) <= chunk_size

\* ------------------------------ split_text_for_incremental_chunking claims
\* the call found page markers in its text
PageMarkedMode == splitter_pc \in {"paging", "returned"} /\ PageMarkers(split_text) # {}

\* the number of pages a text holds (or has a part of)
PagesIn(t) == Cardinality(PageMarkers(t))

\* the character limit cannot close a batch: all the pages together fit in it
ShortPages == TextLen(JoinSections(page_sections)) <= max_chars_per_batch

\* the batches closed so far and the one being filled
BatchesSoFar ==
    IF splitter_pc = "paging" /\ current_batch # <<>>
    THEN Append(batched_texts, JoinSections(current_batch))
    ELSE batched_texts

\* C20: in page-marked mode no batch holds more than pdf_pages_per_batch
\* pages and no page is split across two batches (each batch is a run of
\* whole consecutive pages); when the pages are short enough that the
\* character limit never triggers, N pages with limit k give ceil(N/k)
\* batches, each of k whole pages except the last; 100 pages with k = 75
\* give batches of 75 and 25 pages.
C20_PageBatchesHoldWholePages ==
    PageMarkedMode =>
        /\ \A b \in 1..Len(BatchesSoFar) :
              /\ PagesIn(BatchesSoFar[b]) <= pdf_pages_per_batch
              /\ PagesIn(BatchesSoFar[b]) >= 1
              /\ BatchesSoFar[b][1].kind = "marker"
        /\ \A k \in 1..Len(page_sections) :
              /\ PagesIn(page_sections[k]) = 1
              /\ page_sections[k][1].kind = "marker"
        /\ JoinSections(BatchesSoFar) =
               JoinSections(SubSeq(page_sections, 1, page_index))
        /\ (splitter_pc = "returned" /\ ShortPages) =>
               LET pages == Len(page_sections)
                   batches == Len(batched_texts)
               IN  /\ batches = CeilDiv(pages, pdf_pages_per_batch)
                   /\ \A b \in 1..(batches - 1) :
                         PagesIn(batched_texts[b]) = pdf_pages_per_batch
                   /\ PagesIn(batched_texts[batches]) =
                          pages - (batches - 1) * pdf_pages_per_batch
        /\ (splitter_pc = "returned" /\ split_text = HundredPages
                /\ pdf_pages_per_batch = DefaultPdfPages) =>
               [b \in 1..Len(batched_texts) |-> PagesIn(batched_texts[b])] = <<75, 25>>

C20_Witness ==
    /\ splitter_pc = "returned"
    /\ split_text = HundredPages
    /\ pdf_pages_per_batch = DefaultPdfPages
    /\ ShortPages
    /\ Len(batched_texts) = 2
    /\ PagesIn(batched_texts[2]) = 25

\* C21: in page-marked mode every returned batch that holds more than one
\* page is at most max_chars_per_batch characters long; only a batch of a
\* single page that is itself longer than the limit may exceed it.
C21_PageBatchesWithinCharLimit ==
    (PageMarkedMode /\ splitter_pc = "returned") =>
        \A b \in 1..Len(batched_texts) :
            \/ TextLen(batched_texts[b]) <= max_chars_per_batch
            \/ /\ PagesIn(batched_texts[b]) = 1
               /\ TextLen(batched_texts[b]) > max_chars_per_batch

\* the call is in character-window mode
WindowMode == splitter_pc \in {"windowing", "returned"} /\ split_text # <<>>
                  /\ PageMarkers(split_text) = {}

\* the last blank-line break of the window of a cut, -1 when it has none
LastBreakOf(cut) == RFindBreak(SliceRuns(split_text, cut.start, cut.window_end))

\* the window of the cut ends before the end of the text
EndsBeforeText(cut) == cut.window_end < TextLen(split_text)

\* every batch made so far is at most max_chars_per_batch characters long
BatchesWithinWindow ==
    \A b \in 1..Len(batched_texts) : TextLen(batched_texts[b]) <= max_chars_per_batch

\* C22 as stated: in character-window mode every batch is at most
\* max_chars_per_batch characters long, and a window that ends before the end
\* of the text is cut at its last blank-line break when that break lies at
\* least 60% into the window, and at the hard window boundary otherwise.
C22_CutAtBreakFromSixtyPercent ==
    WindowMode =>
        /\ BatchesWithinWindow
        /\ \A i \in 1..Len(split_cuts) :
              LET cut == split_cuts[i]
                  at_break == /\ EndsBeforeText(cut)
                              /\ LastBreakOf(cut) >= 0
                              /\ 10 * LastBreakOf(cut) >= 6 * max_chars_per_batch
              IN  cut.end = IF at_break THEN cut.start + LastBreakOf(cut)
                            ELSE cut.window_end

\* C22 amended: in character-window mode every batch is at most
\* max_chars_per_batch characters long, and a window that ends before the end
\* of the text is cut at its last blank-line break when that break lies more
\* than 60% of max_chars_per_batch into the window, and at the hard window
\* boundary otherwise (also when the break stands exactly at 60%).
C22_CutAtBreakPastSixtyPercent ==
    WindowMode =>
        /\ BatchesWithinWindow
        /\ \A i \in 1..Len(split_cuts) :
              LET cut == split_cuts[i]
                  at_break == /\ EndsBeforeText(cut)
                              /\ LastBreakOf(cut) >= 0
                              /\ 10 * LastBreakOf(cut) > 6 * max_chars_per_batch
              IN  /\ cut.end = IF at_break THEN cut.start + LastBreakOf(cut)
                               ELSE cut.window_end
                  /\ cut.start = IF i = 1 THEN 0 ELSE split_cuts[i - 1].end
                  /\ cut.section = StripRuns(SliceRuns(split_text, cut.start, cut.end))
        /\ batched_texts =
               SelectSeq([i \in 1..Len(split_cuts) |-> split_cuts[i].section],
                         LAMBDA section : section # <<>>)

\* a returned call that cut one window at a blank-line break more than 60%
\* into it, and another, whose break stood earlier, at the window boundary
C22_Witness ==
    /\ WindowMode
    /\ splitter_pc = "returned"
    /\ \E i \in 1..Len(split_cuts) :
          /\ EndsBeforeText(split_cuts[i])
          /\ 10 * LastBreakOf(split_cuts[i]) > 6 * max_chars_per_batch
          /\ split_cuts[i].end = split_cuts[i].start + LastBreakOf(split_cuts[i])
    /\ \E i \in 1..Len(split_cuts) :
          /\ EndsBeforeText(split_cuts[i])
          /\ LastBreakOf(split_cuts[i]) >= 0
          /\ split_cuts[i].end = split_cuts[i].window_end

\* the page numbers of the markers of a text, in order
PageNumbers(t) ==
    LET marked == SelectSeq(t, LAMBDA r : r.kind = "marker")
    IN  [k \in 1..Len(marked) |-> marked[k].page]

\* the sections the window loop kept, in the order it cut them
KeptSections ==
    SelectSeq([i \in 1..Len(split_cuts) |-> split_cuts[i].section],
              LAMBDA section : section # <<>>)

\* C23: split_text_for_incremental_chunking works with max_chars_per_batch
\* raised to at least 10,000 and pdf_pages_per_batch raised to at least 1
\* whatever smaller values are passed; in both modes the batches follow the
\* order of the text, none is empty or made of whitespace only, and an empty
\* text gives no batch.
C23_FlooredLimitsOrderedNonEmptyBatches ==
    /\ splitter_pc \in {"paging", "windowing", "returned"} =>
          /\ max_chars_per_batch >= 10000
          /\ pdf_pages_per_batch >= 1
          /\ max_chars_per_batch = Max(10000, split_args[1])
          /\ pdf_pages_per_batch = Max(1, split_args[2])
    /\ \A b \in 1..Len(batched_texts) :
          /\ batched_texts[b] # <<>>
          /\ StripRuns(batched_texts[b]) = batched_texts[b]
    /\ (splitter_pc = "returned" /\ split_text = <<>>) => batched_texts = <<>>
    /\ WindowMode =>
          /\ batched_texts = KeptSections
          /\ \A i \in 1..Len(split_cuts) :
                LET cut == split_cuts[i]
                IN  /\ cut.start < cut.end
                    /\ cut.start = IF i = 1 THEN 0 ELSE split_cuts[i - 1].end
                    /\ cut.section = StripRuns(SliceRuns(split_text, cut.start, cut.end))
                    /\ EndsBeforeText(cut) =>
                           cut.window_end - cut.start = Max(10000, split_args[1])
    /\ (PageMarkedMode /\ splitter_pc = "returned") =>
          /\ PageNumbers(JoinSections(batched_texts)) = PageNumbers(split_text)
          /\ \A b \in 1..Len(batched_texts) : PagesIn(batched_texts[b]) >= 1

\* a returned call that was passed 5,000 characters and 0 pages, cut a window
\* of 10,000 characters before the end of its text and made several batches
C23_Witness ==
    /\ splitter_pc = "returned"
    /\ split_args = <<5000, 0>>
    /\ pdf_pages_per_batch = 1
    /\ WindowMode
    /\ Len(batched_texts) >= 2
    /\ \E i \in 1..Len(split_cuts) :
          /\ EndsBeforeText(split_cuts[i])
          /\ split_cuts[i].end - split_cuts[i].start = 10000

\* ------------------------------------------------------ word-count claims
\* len(markdown.strip().split()) of the document at position i of crawl_results
WordsOfDocument(i) == WordCount(Strip(OrEmpty(crawl_results[i].markdown)))

\* the words of all the valid documents of the run
WordsOfValidDocuments ==
    LET valid == ValidPrefix(Len(crawl_results))
    IN  SeqSum([k \in 1..Len(valid) |-> WordsOfDocument(valid[k])])

\* C24: the total_word_count of every Source upsert of a source_id is the sum
\* of the word counts of all the valid documents of the run, counted on the
\* whole trimmed content and not on the 5,000-character summary sample, and
\* the total_word_count of the returned result is the same sum.
C24_WordCountsSummedOverFullContent ==
    /\ \A i \in 1..Len(source_calls) :
          /\ source_calls[i].data.source_id = SourceId
          /\ source_calls[i].data.total_word_count = WordsOfValidDocuments
    /\ result.returned => result.total_word_count = WordsOfValidDocuments

\* a returned run of two valid documents, one of them longer than the summary
\* sample with words past its 5,000th character: the Source was written with
\* the words of both
C24_Witness ==
    /\ result.returned
    /\ Len(prepared_documents) = 2
    /\ \E d \in 1..2 :
          LET content == prepared_documents[d].markdown.text
          IN  /\ Chars(content, Len(content)) > SummarySampleChars
              /\ WordCount(Take(content, SummarySampleChars)) < WordCount(content)
    /\ prepared_documents[1].url # prepared_documents[2].url
    /\ \E i \in 1..Len(source_calls) :
          /\ source_calls[i].ok
          /\ source_calls[i].data.total_word_count =
                 WordCount(prepared_documents[1].markdown.text)
                     + WordCount(prepared_documents[2].markdown.text)
    /\ result.total_word_count > 3

\* ------------------------------------------------------ summary claims
\* the log positions where extract_source_summary raised
FailedSummaries == {p \in At({"extract_source_summary"}) : ~log[p].ok}

\* the Source upsert that the event at position p of the log records
SourceCallAt(p) ==
    source_calls[Cardinality({q \in At(SourceWrites) : q <= p})]

\* f"Documentation from {source_id} - {n} pages crawled"
FallbackSummary(source_id, n) ==
    [kind |-> "fallback", source_id |-> source_id, pages |-> n]

\* C25: when the summarizer raises for a source_id the run goes on: the
\* summary becomes the templated fallback naming the source_id and the number
\* of its content samples, update_source_info is called next with that
\* summary, and the run fails at that source only if both upserts fail.
C25_SummaryFailureFallsBack ==
    \A p \in FailedSummaries :
        /\ p < Len(log)
        /\ log[p + 1].op = "update_source_info"
        /\ SourceCallAt(p + 1).data.call = "update_source_info"
        /\ SourceCallAt(p + 1).data.summary =
               FallbackSummary(SourceId, Len(ValidPrefix(Len(crawl_results))))
        /\ log[p + 1].ok => error # "RuntimeError"
        /\ (~log[p + 1].ok) =>
               /\ p + 2 <= Len(log)
               /\ log[p + 2].op = "fallback_upsert"
               /\ SourceCallAt(p + 2).data.summary = SourceCallAt(p + 1).data.summary
               /\ log[p + 2].ok => error # "RuntimeError"

\* a returned run of two valid documents whose summarizer raised: the Source
\* was written with the fallback summary counting two pages
C25_Witness ==
    /\ result.returned
    /\ FailedSummaries # {}
    /\ \E i \in 1..Len(source_calls) :
          /\ source_calls[i].ok
          /\ source_calls[i].data.summary = FallbackSummary(SourceId, 2)

\* ------------------------------------------------------ flush threshold claims
\* the run has asked the settings service for its flush threshold
SettingLoaded == rag_setting # NotLoaded

\* C26: the flush threshold of a standard-mode run is max(25, configured
\* value), so never below 25, and it is 250 when the setting is absent, is
\* not an integer, or cannot be loaded; no flush before the last holds fewer
\* chunks than that.
C26_FlushThresholdFlooredAndDefaulted ==
    /\ SettingLoaded =>
          /\ StandardMode
          /\ flush_chunk_size >= 25
          /\ rag_setting.kind = "int" =>
                 flush_chunk_size = (IF rag_setting.n > 25 THEN rag_setting.n ELSE 25)
          /\ rag_setting.kind \in {"absent", "invalid", "unavailable"} =>
                 flush_chunk_size = 250
          /\ \A i \in 1..(Len(bulk_calls) - 1) :
                 Len(bulk_calls[i].contents) = flush_chunk_size
    /\ (StandardMode /\ pc \in {"Streaming", "Done"}) => SettingLoaded

\* a completed standard-mode run configured with 10 chunks per flush: its
\* first flush held 25 chunks
C26_Witness ==
    /\ pc = "Done"
    /\ rag_setting = [kind |-> "int", n |-> 10]
    /\ Len(bulk_calls) >= 2
    /\ Len(bulk_calls[1].contents) = 25

\* ------------------------------------------------------ page mode claims
\* the run registered its pages, or failed doing so
PagesAttempted ==
    \/ pc \in {"Streaming", "StreamingSections"}
    \/ (pc = "Done" /\ prepared_documents # <<>>)
    \/ error \in {"PageStorageError", "StorageError"}
    \/ At(ChunkWrites) # {}

\* the crawl type is "llms-txt", or the valid documents of the run have one
\* url between them and it ends in "llms-full.txt"
MultiSectionExpected ==
    \/ crawl_type = "llms-txt"
    \/ /\ Cardinality(ValidUrls) = 1
       /\ \A u \in ValidUrls : EndsWithLlmsFull(u)

\* the number of chunks of the sections before the s-th
ChunksBefore(sections, s) == SeqSum(SubSeq(sections, 1, s - 1))

\* C27: a run that reaches RegisteringPages invokes exactly one of
\* store_pages and store_llms_full_sections, once; it is
\* store_llms_full_sections exactly when the crawl type is "llms-txt" or the
\* run has a single valid document url, ending in "llms-full.txt"; in that
\* mode every chunk carries the synthetic url of its section and chunk_index
\* counts from 0 within each section.
C27_PageModeDecidedOnce ==
    /\ Cardinality(At(PageWrites)) <= 1
    /\ ~(StandardMode /\ MultiSectionMode)
    /\ PagesAttempted => Cardinality(At(PageWrites)) = 1
    /\ MultiSectionMode => MultiSectionExpected
    /\ StandardMode => ~MultiSectionExpected
    /\ (MultiSectionMode /\ bulk_calls # <<>>) =>
          LET base_url == prepared_documents[1].url
              sections == prepared_documents[HolderOf(base_url)].markdown.sections
              call == bulk_calls[1]
          IN  /\ Len(bulk_calls) = 1
              /\ Len(call.urls) = SeqSum(sections)
              /\ \A s \in 1..Len(sections) : \A j \in 1..sections[s] :
                    LET k == ChunksBefore(sections, s) + j
                    IN  /\ call.urls[k] = SectionUrl(base_url, s)
                        /\ call.metadatas[k].url = SectionUrl(base_url, s)
                        /\ call.chunk_numbers[k] = j - 1
                        /\ call.metadatas[k].chunk_index = j - 1

\* a completed multi-section run of crawl type "normal": its one document
\* has two sections, and the second section's chunks are numbered from 0
C27_Witness ==
    /\ pc = "Done"
    /\ crawl_type = "normal"
    /\ MultiSectionMode
    /\ Len(bulk_calls) = 1
    /\ \E k \in 2..Len(bulk_calls[1].urls) :
          /\ bulk_calls[1].urls[k] = SectionUrl(prepared_documents[1].url, 2)
          /\ bulk_calls[1].urls[k - 1] = SectionUrl(prepared_documents[1].url, 1)
          /\ bulk_calls[1].chunk_numbers[k] = 0
          /\ bulk_calls[1].chunk_numbers[k - 1] > 0

\* ------------------------------------------------------ query builder claims
\* the builder has built the INSERT statement of an upsert
UpsertBuilt ==
    /\ builder_pc \in {"built", "executed", "raised"}
    /\ builder_op = "UPSERT"
    /\ built_sql.statement = "INSERT"

\* the columns of the upserted row that an update may change
OtherColumns(row, conflict_target) ==
    {row[k][1] : k \in 1..Len(row)} \ {conflict_target, "id", "created_at"}

\* the table holds a row with the key of row that carries its other columns,
\* and execute() returned it
WrittenAndReturned(row) ==
    /\ Len(api_response) = 1
    /\ \E i \in 1..Len(stored_rows) : stored_rows[i] = api_response[1]
    /\ Field(api_response[1], KeyColumn(builder_table)) =
           Field(row, KeyColumn(builder_table))
    /\ \A c \in OtherColumns(row, KeyColumn(builder_table)) :
          /\ HasColumn(api_response[1], c)
          /\ Field(api_response[1], c) = Field(row, c)

\* C28: every upsert statement the Postgres adapter builds names a
\* conflict-target column, on_conflict when given and otherwise the column
\* inferred from the table name; executed, it leaves the row written (updated
\* when its key was there already) and returns it; the fallback upsert into
\* archon_sources without on_conflict leaves a row for its source_id whether
\* or not one existed before.
C28_UpsertNamesConflictTarget ==
    /\ UpsertBuilt =>
          /\ built_sql.conflict_target # ""
          /\ built_sql.conflict_target =
                 (IF builder_on_conflict # "" THEN builder_on_conflict
                  ELSE InferConflictColumn(builder_table))
          /\ built_sql.on_conflict = "DO UPDATE SET"
    /\ (UpsertBuilt /\ builder_pc = "executed") =>
          WrittenAndReturned(builder_data.rows[1])
    /\ (UpsertBuilt /\ builder_pc = "executed" /\ builder_table = "archon_sources"
            /\ builder_data.rows[1] = FallbackRow /\ builder_on_conflict = "") =>
          \E i \in 1..Len(stored_rows) :
              /\ Field(stored_rows[i], "source_id") = "src"
              /\ Field(stored_rows[i], "summary") = "new"

\* ------------------------------------------------------ factory claims
\* the calls that asked for the client
IsGet(call) == call.op \in EntryPoints

\* no reset_db_client lies between the calls at positions i and j
NoResetBetween(i, j) ==
    \A k \in (i + 1)..(j - 1) : factory_calls[k].op # "reset_db_client"

\* the number of clients built by the calls at positions i..j
BuiltBetween(i, j) ==
    Cardinality({k \in i..j : /\ IsGet(factory_calls[k])
                               /\ factory_calls[k].raised = "none"
                               /\ factory_calls[k].cached = 0})

\* C29: after a successful get_db_client every later call, until
\* reset_db_client is called, returns the same instance and builds nothing;
\* a call that finds nothing cached and an unsupported DB_PROVIDER or missing
\* credentials raises ValueError and caches nothing, and a later call with a
\* valid configuration builds a client.
C29_ClientCachedUntilReset ==
    /\ \A i \in 1..Len(factory_calls) : \A j \in (i + 1)..Len(factory_calls) :
          (/\ IsGet(factory_calls[i]) /\ factory_calls[i].raised = "none"
           /\ IsGet(factory_calls[j]) /\ NoResetBetween(i, j)) =>
              /\ factory_calls[j].raised = "none"
              /\ factory_calls[j].out = factory_calls[i].out
              /\ BuiltBetween(i + 1, j) = 0
    /\ \A j \in 1..Len(factory_calls) :
          LET call == factory_calls[j]
          IN  /\ (IsGet(call) /\ call.cached = 0 /\ ~call.valid) =>
                     /\ call.raised = "ValueError"
                     /\ call.out = 0
              /\ (IsGet(call) /\ call.raised # "none") =>
                     \/ j = Len(factory_calls) /\ factory_client = 0
                     \/ j < Len(factory_calls) /\ factory_calls[j + 1].cached = 0
              /\ (IsGet(call) /\ call.cached = 0 /\ call.valid) =>
                     call.raised \in {"none", "Exception", "RuntimeError"}
              /\ (IsGet(call) /\ call.raised = "none") => call.out > 0
    /\ factory_client \in 0..clients_built
    /\ clients_built = BuiltBetween(1, Len(factory_calls))

\* get_db_client raised ValueError, the environment was put right, the next
\* call built a client and the call after it returned the same instance
C29_Witness ==
    /\ Len(factory_calls) >= 3
    /\ factory_calls[1].raised = "ValueError"
    /\ factory_calls[2].op = "get_db_client"
    /\ factory_calls[2].raised = "none"
    /\ factory_calls[2].out = 1
    /\ factory_calls[3].op = "get_supabase_client"
    /\ factory_calls[3].out = 1
    /\ ~factory_calls[3].valid
    /\ clients_built = 1

\* ------------------------------------------------------ flush claims
\* the position in its document of the chunk <<d, b, p>>: doc_chunk_index
IndexInDocument(chunk) ==
    SeqSum(SubSeq(prepared_documents[chunk[1]].markdown.batches, 1, chunk[2] - 1))
        + chunk[3] - 1

\* C30: in a completed standard-mode run every chunk the chunker produced is
\* handed to the bulk writer in exactly one flush, in production order, with
\* its url, chunk number, content and metadata at the same position of the
\* four lists; the returned chunk_count is the number of chunks produced and
\* the total of the batch sizes of the flushes, and the returned
\* chunks_stored is the sum of the chunks_stored values the writer reported.
C30_EveryChunkFlushedOnce ==
    (pc = "Done" /\ StandardMode) =>
        \* ExpectedContents lists every chunk once, in production order
        /\ WrittenContents = ExpectedContents
        /\ \A c \in 1..Len(bulk_calls) :
              LET call == bulk_calls[c]
              IN  /\ Len(call.urls) = Len(call.contents)
                  /\ Len(call.chunk_numbers) = Len(call.contents)
                  /\ Len(call.metadatas) = Len(call.contents)
                  /\ call.contents # <<>>
                  /\ \A k \in 1..Len(call.contents) :
                        /\ call.urls[k] = prepared_documents[call.contents[k][1]].url
                        /\ call.chunk_numbers[k] = IndexInDocument(call.contents[k])
                        /\ call.metadatas[k].url = call.urls[k]
                        /\ call.metadatas[k].chunk_index = call.chunk_numbers[k]
        /\ pending_contents = <<>>
        /\ result.chunk_count = TotalChunks
        /\ result.chunk_count = Len(ExpectedContents)
        /\ result.chunk_count = SeqSum(BatchSizes)
        /\ result.chunks_stored = ReportedStored

\* a completed standard-mode run of two documents that flushed three times,
\* the first flush holding chunks of both documents, and whose writer
\* reported fewer chunks stored than it was given
C30_Witness ==
    /\ pc = "Done"
    /\ StandardMode
    /\ Len(prepared_documents) = 2
    /\ Len(bulk_calls) = 3
    /\ \E k \in 2..Len(bulk_calls[1].contents) :
          bulk_calls[1].contents[k][1] # bulk_calls[1].contents[k - 1][1]
    /\ result.chunks_stored < result.chunk_count
    /\ result.chunk_count = SeqSum(BatchSizes)

\* ------------------------------------------------ the 30% threshold (C31)
\* the window text[start : start + chunk_size] of a recorded cut
WindowOf(cut) == Slice(text, cut.start, cut.start + chunk_size)

\* the position in its window of the marker a cut was made at
CutPosition(cut) ==
    IF cut.rule = "sentence" THEN cut.end - cut.start - 1
    ELSE cut.end - cut.start

\* the marker each soft rule looks for
MarkerOf(rule) ==
    IF rule = "fence" THEN Fence
    ELSE IF rule = "paragraph" THEN ParagraphBreak
    ELSE SentenceBreak

SoftRules == {"fence", "paragraph", "sentence"}

\* the position stands exactly at 0.3 * chunk_size
ExactlyThirtyPercent(pos) == 10 * pos = 3 * chunk_size

\* C31, as stated: a break candidate that lies at least 30% into the window
\* is accepted; a code fence, blank-line break or sentence break standing
\* exactly at 0.3 * chunk_size is used as the cut point.  Taken for the
\* candidate the rules reach: the last fence; the last blank-line break when
\* no fence qualifies; the last sentence break when the window has no
\* blank-line break either.
C31_BreakAtThirtyPercentAccepted ==
    \A k \in 1..Len(cuts) :
        cuts[k].rule # "rest" =>
            LET w == WindowOf(cuts[k])
                f == RFind(w, Fence)
                b == RFind(w, ParagraphBreak)
                s == RFind(w, SentenceBreak)
            IN  /\ ExactlyThirtyPercent(f) => cuts[k].end = cuts[k].start + f
                /\ (f = -1 /\ ExactlyThirtyPercent(b)) =>
                       cuts[k].end = cuts[k].start + b
                /\ (f = -1 /\ b = -1 /\ ExactlyThirtyPercent(s)) =>
                       cuts[k].end = cuts[k].start + s + 1

\* C31, amended: a break candidate is accepted only when it lies more than
\* 30% into the window.  Every cut made at a code fence, blank-line break or
\* sentence break is made at the last such marker of the window and lies
\* beyond 0.3 * chunk_size; the last code fence of a window is the cut point
\* whenever it lies beyond 30%; and a code fence, blank-line break or
\* sentence break standing exactly at 0.3 * chunk_size is rejected, not used
\* as the cut point.
C31_BreakPastThirtyPercentAccepted ==
    \A k \in 1..Len(cuts) :
        cuts[k].rule # "rest" =>
            LET w == WindowOf(cuts[k])
                f == RFind(w, Fence)
            IN  /\ cuts[k].rule \in SoftRules =>
                       /\ CutPosition(cuts[k]) = RFind(w, MarkerOf(cuts[k].rule))
                       /\ 10 * CutPosition(cuts[k]) > 3 * chunk_size
                /\ 10 * f > 3 * chunk_size =>
                       /\ cuts[k].rule = "fence"
                       /\ cuts[k].end = cuts[k].start + f
                /\ \A rule \in SoftRules :
                       ExactlyThirtyPercent(RFind(w, MarkerOf(rule))) =>
                           /\ cuts[k].rule # rule
                           /\ cuts[k].end # cuts[k].start
                                  + RFind(w, MarkerOf(rule))
                                  + (IF rule = "sentence" THEN 1 ELSE 0)

\* the blank-line case: the last blank-line break of a window stands exactly
\* at 0.3 * chunk_size and the window is cut at chunk_size
C31_Witness ==
    /\ chunker_pc = "returned"
    /\ \E k \in 1..Len(cuts) :
          /\ cuts[k].rule = "hard"
          /\ ExactlyThirtyPercent(RFind(WindowOf(cuts[k]), ParagraphBreak))
          /\ cuts[k].end = cuts[k].start + chunk_size
    /\ Len(chunks) >= 1

\* ----------------------------------------------- no content is lost (C32)
\* the number of letters in the runs from the lo-th to the hi-th
RECURSIVE LetterChars(_, _, _)
LetterChars(t, lo, hi) ==
    IF lo > hi THEN 0
    ELSE IF lo = hi THEN (IF t[lo].kind = "letters" THEN t[lo].n ELSE 0)
    ELSE LetterChars(t, lo, (lo + hi) \div 2)
             + LetterChars(t, (lo + hi) \div 2 + 1, hi)

\* the non-whitespace content of a text, in order: its page markers, and the
\* number of letters before the first marker, between every two markers and
\* after the last
SolidContent(t) ==
    LET at == SelectSeq([k \in 1..Len(t) |-> k], LAMBDA k : t[k].kind = "marker")
        from(j) == IF j = 1 THEN 1 ELSE at[j - 1] + 1
        to(j) == IF j = Len(at) + 1 THEN Len(t) ELSE at[j] - 1
    IN  [pages |-> [j \in 1..Len(at) |-> t[at[j]].page],
         letters |-> [j \in 1..(Len(at) + 1) |-> LetterChars(t, from(j), to(j))]]

\* the batches joined in order
JoinedBatches == Flatten(batched_texts)

\* C32: split_text_for_incremental_chunking loses no content: for every
\* text, with page markers or without, the batches joined in order hold every
\* non-whitespace character of the text in the original order, the text that
\* stands before the first page marker included.
C32_NoContentLost ==
    splitter_pc = "returned" => SolidContent(JoinedBatches) = SolidContent(split_text)

\* ------------------------------------------------------ termination (C33)
\* every iteration of a loop moves its position forward: the start of the
\* window in the two window loops, the chunk index in the combining loop,
\* the page index in the page loop
LoopsAdvance ==
    /\ (chunker_pc = "cutting" /\ chunker_pc' = "cutting") => start' > start
    /\ (chunker_pc = "combining" /\ chunker_pc' = "combining") =>
           combine_i' > combine_i
    /\ (splitter_pc = "windowing" /\ splitter_pc' = "windowing") =>
           split_start' > split_start
    /\ (splitter_pc = "paging" /\ splitter_pc' = "paging") =>
           page_index' > page_index

\* a loop that has not ended stands at a position below its finite limit,
\* where its next iteration can be taken
LoopsBounded ==
    /\ chunker_pc = "cutting" => (0 <= start /\ start < Len(text))
    /\ chunker_pc = "combining" => (0 <= combine_i /\ combine_i < Len(chunks))
    /\ splitter_pc = "windowing" =>
           (0 <= split_start /\ split_start < TextLen(split_text))
    /\ splitter_pc = "paging" =>
           (0 <= page_index /\ page_index < Len(page_sections))

\* C33: smart_chunk_text returns for every text and every chunk_size >= 1,
\* and split_text_for_incremental_chunking returns for every text and every
\* pair of limits: every iteration of their loops strictly advances the start
\* position, whichever rule selects the cut point, towards a finite limit it
\* never passes, and a loop that has not ended can always take its next
\* iteration; so each call reaches its return after finitely many steps.
C33_BothFunctionsTerminate ==
    /\ []LoopsBounded
    /\ [][LoopsAdvance]_vars

\* a call of smart_chunk_text that returned after windows cut by a soft rule
\* and by the hard boundary, the window having moved each time
C33_Witness ==
    /\ chunker_pc = "returned"
    /\ chunk_size >= 1
    /\ Len(cuts) >= 3
    /\ \E k \in 1..Len(cuts) : cuts[k].rule \in SoftRules
    /\ \E k \in 1..Len(cuts) : cuts[k].rule = "hard"
    /\ \A k \in 1..(Len(cuts) - 1) : cuts[k + 1].start > cuts[k].start

\* ------------------------------------------- connections returned (C34)
\* the threads between getconn and putconn
Holding == {t \in DOMAIN executes : executes[t].pc \in {"try", "except", "finally"}}

\* the threads whose execute() call has ended
Ended == {t \in DOMAIN executes : executes[t].pc \in {"returned", "raised"}}

\* C34: every execute call of PostgresTableQueryBuilder and of
\* PostgresRpcQueryBuilder returns the connection it took to the pool exactly
\* once, whether the statement succeeds, the database raises or no operation
\* was set (ValueError); it commits on success, and on failure rolls back and
\* ends with an exception; so the connections checked out are exactly those
\* of the calls in progress, one each, and none when no call is in progress,
\* however the calls of the threads interleave.
C34_ConnectionReturnedExactlyOnce ==
    /\ pool_used = {executes[t].conn : t \in Holding}
    /\ \A t, u \in Holding : t # u => executes[t].conn # executes[u].conn
    /\ Holding = {} => pool_used = {}
    /\ \A t \in Holding : executes[t].conn # 0 /\ executes[t].puts = 0
    /\ \A t \in Ended :
          LET call == executes[t]
          IN  /\ call.puts = (IF call.conn # 0 THEN 1 ELSE 0)
              /\ call.conn = 0 <=> call.error = "PoolError"
              /\ call.pc = "returned" =>
                     /\ call.error = "none"
                     /\ call.commits = 1
                     /\ call.rollbacks = 0
                     /\ ~BuildFails(call)
              /\ (call.pc = "raised" /\ call.conn # 0) =>
                     /\ call.error # "none"
                     /\ call.rollbacks = 1
              /\ BuildFails(call) =>
                     /\ call.pc = "raised"
                     /\ call.commits = 0
                     /\ call.error \in {"PoolError", "ValueError", "DatabaseError",
                                        "RollbackError"}

\* two threads ran execute() on two connections: one without an operation
\* ended with ValueError, one on the rpc builder returned, and the pool has
\* both connections back
C34_Witness ==
    /\ pool_maxconn = 2
    /\ pool_used = {}
    /\ \E t, u \in Ended :
          /\ executes[t].builder = "table"
          /\ executes[t].error = "ValueError"
          /\ executes[t].rollbacks = 1
          /\ executes[t].puts = 1
          /\ executes[u].builder = "rpc"
          /\ executes[u].pc = "returned"
          /\ executes[u].puts = 1
          /\ executes[u].conn # executes[t].conn

\* ------------------------------------------- the summarization sample (C35)
\* the samples handed in for a source_id, in order
SamplesOf(source_id) ==
    LET at == SelectSeq([i \in 1..Len(arg_metadatas) |-> i],
                        LAMBDA i : arg_metadatas[i].source_id = source_id)
    IN  [j \in 1..Len(at) |-> arg_contents[at[j]]]

\* the first k of the samples, each after a space
RECURSIVE JoinSamples(_, _)
JoinSamples(samples, k) ==
    IF k = 0 THEN <<>> ELSE JoinSamples(samples, k - 1) \o <<WS>> \o samples[k]

\* C35: the combined summarization sample built for a source_id is made only
\* of the first up to 3 content samples of that source, in order, each at
\* most 5,000 characters long, and its total length never exceeds 15,000
\* characters.
C35_CombinedSampleBounded ==
    \A i \in 1..Len(combined_contents) :
        LET samples == SamplesOf(combined_contents[i][1])
            combined_content == combined_contents[i][2]
        IN  /\ \E k \in 0..(IF Len(samples) < 3 THEN Len(samples) ELSE 3) :
                   combined_content = JoinSamples(samples, k)
            /\ \A j \in 1..Len(samples) : TextChars(samples[j]) <= 5000
            /\ TextChars(combined_content) <= 15000

\* a source with four samples: the first three fill the combined sample to
\* exactly 15,000 characters and the fourth is left out
C35_Witness ==
    /\ combiner_pc = "returned"
    /\ \E i \in 1..Len(combined_contents) :
          /\ Len(SamplesOf(combined_contents[i][1])) = 4
          /\ combined_contents[i][2] = JoinSamples(SamplesOf(combined_contents[i][1]), 3)
          /\ TextChars(combined_contents[i][2]) = 15000

====
